---- MODULE Spec2Model ----
(***************************************************************************)
(* Model of scripts/dataset-cohere-dpo.py: the incremental, resumable DPO  *)
(* pair generator (GastronomiaDPOGenerator).  One generator process runs   *)
(* at a time; the progress file, the session logs and the final datasets   *)
(* are files that outlive the process.                                     *)
(*                                                                         *)
(* Python dicts are records; "key in d" is "key \in DOMAIN d".  A chat     *)
(* reply is the text after .strip().  A file write that fails is the open  *)
(* call raising: the file is left as it was.  Clock readings               *)
(* (datetime.now().isoformat()) are the single token Now.                  *)
(***************************************************************************)
EXTENDS Integers, Sequences, FiniteSets, TLC

VARIABLES
    questions_file,   \* the question bank file on disk
    recipes,          \* the recipe list handed to generate_complete_dataset
    progress_file,    \* progress.json: NoFile or <<the saved record>>
    session_logs,     \* session id -> lines of session_<id>.jsonl (<<>>: no file)
    final_datasets,   \* session id -> NoFile or <<the array of recipes_dpo_<id>.json>>
    current_session,  \* self.current_session (0: no generator constructed yet)
    questions_bank,   \* self.questions_bank
    pc,               \* position of the running process
    start_recipe_idx, \* process_recipe_batch_incremental: start_recipe_idx
    recipe_idx,       \* loop variable, 0-based
    question_idx,     \* loop variable, 0-based
    successful_pairs,
    failed_pairs,
    chosen,           \* generate_dpo_pair: chosen
    rejected,         \* generate_dpo_pair: rejected
    final_dataset,    \* value returned by generate_complete_dataset
    (* history of the run, kept for the properties *)
    resumed,          \* the operator confirmed the resume prompt
    resume_from,      \* the progress record read at that prompt
    attempted,        \* <<recipe_idx, question_idx>> whose try block was entered
    prev_attempted,   \* attempted of the previous session
    prev_end,         \* how the previous session's process ended
    chat_calls,       \* sequence of <<recipe_idx, question_idx, kind>>
    cho_failed,       \* the chosen chat call of the current question raised
    rej_failed,       \* the rejected chat call of the current question raised
    save_ok,          \* the last save_progress wrote the file
    last_save,        \* what the last save_dpo_pair_incremental call did
    final_write_ok,   \* convert_jsonl_to_json could open its output file
    (* validators applied to arbitrary pairs *)
    v_pair,
    v_verdict,        \* verdict of validate_dpo_pair_object
    v_dict_verdict,   \* verdict of validate_dpo_pair on the same values
    (* the other scripts; each runs on its own *)
    scraper,          \* esbieta.py: main() and its worker threads
    parquet           \* convert_json_to_parquet.py: the two conversions

vars == <<questions_file, recipes, progress_file, session_logs, final_datasets,
          current_session, questions_bank, pc, start_recipe_idx, recipe_idx,
          question_idx, successful_pairs, failed_pairs, chosen, rejected,
          final_dataset, resumed, resume_from, attempted, prev_attempted,
          prev_end, chat_calls, cho_failed, rej_failed, save_ok, last_save,
          final_write_ok, v_pair, v_verdict, v_dict_verdict, scraper, parquet>>

\* What the generator's steps leave alone.
tool_vars == <<v_dict_verdict, scraper, parquet>>

\* What the scraper and the converter leave alone.
generator_vars ==
    <<questions_file, recipes, progress_file, session_logs, final_datasets,
      current_session, questions_bank, pc, start_recipe_idx, recipe_idx,
      question_idx, successful_pairs, failed_pairs, chosen, rejected,
      final_dataset, resumed, resume_from, attempted, prev_attempted,
      prev_end, chat_calls, cho_failed, rej_failed, save_ok, last_save,
      final_write_ok, v_pair, v_verdict, v_dict_verdict>>

-----------------------------------------------------------------------------
(* Bounds *)

MaxRecipes == 2

MaxSessions == 2

MaxBankItems == 3

MaxLogLines == 3

MaxLinks == 3

MaxLongLinks == 11

MaxRows == 3

-----------------------------------------------------------------------------
(* Values *)

\* An optional value (a file that may not exist, a dict that may be empty)
\* is a sequence of length 0 or 1.
NoFile == <<>>

Now == "now"

MinChosenLen == 50

MinRejectedLen == 20

ApologyText == "Lo siento, no puedo proporcionar esa información en este momento."

FallbackText == "Es un plato tradicional. Sigue las instrucciones básicas de cocina."

TinyText == "Se cocina."

MidText == "Se hierve la papa con queso."

LongText == "Se sofrie la cebolla con achiote, se agrega la papa y se hierve hasta espesar."

\* The replies drawn from the chat service: too short for either side, long
\* enough for rejected only, long enough for both, and a reply that happens
\* to be the text of the rejected fallback.
ChatReplies == {TinyText, MidText, LongText, FallbackText}

Get(d, k, default) == IF k \in DOMAIN d THEN d[k] ELSE default

-----------------------------------------------------------------------------
(* Inputs: recipes and the question bank file *)

RecipeEncebollado ==
    [id |-> 8, nombre |-> "Encebollado", ingredientes |-> <<"albacora", "yuca">>,
     pasos |-> <<"Cocinar">>, tiempo |-> "45 min", dificultad |-> "Media",
     racion |-> "4", categoria |-> "Sopas", pais |-> "Ecuador"]

RecipeLocro ==
    [id |-> 7, nombre |-> "Locro de papa", ingredientes |-> <<"papa", "queso">>,
     pasos |-> <<"Hervir">>, tiempo |-> "30 min", dificultad |-> "Baja",
     racion |-> "6"]

RecipeNoIngredientes ==
    [id |-> 8, nombre |-> "Encebollado", pasos |-> <<"Cocinar">>,
     tiempo |-> "45 min", dificultad |-> "Media", racion |-> "4"]

RecipeNoQuestions ==
    [id |-> 9, nombre |-> "Ceviche", ingredientes |-> <<"camaron">>,
     pasos |-> <<"Marinar">>, tiempo |-> "20 min", dificultad |-> "Baja",
     racion |-> "2"]

RecipeNoId ==
    [nombre |-> "Fanesca", ingredientes |-> <<"granos">>, pasos |-> <<"Cocer">>,
     tiempo |-> "120 min", dificultad |-> "Alta", racion |-> "8"]

RecipeNoNombre ==
    [id |-> 7, ingredientes |-> <<"papa", "queso">>, pasos |-> <<"Hervir">>,
     tiempo |-> "30 min", dificultad |-> "Baja", racion |-> "6"]

Catalogue == <<RecipeEncebollado, RecipeNoQuestions, RecipeLocro,
               RecipeNoIngredientes, RecipeNoId, RecipeNoNombre>>

RECURSIVE PickInOrder(_, _)
PickInOrder(S, i) ==
    IF i > Len(Catalogue) THEN <<>>
    ELSE IF i \in S THEN <<Catalogue[i]>> \o PickInOrder(S, i + 1)
    ELSE PickInOrder(S, i + 1)

RecipeLists ==
    {PickInOrder(S, 1) : S \in {T \in SUBSET (1..Len(Catalogue)) : Cardinality(T) <= MaxRecipes}}

BankData ==
    <<[recipe_id |-> 8, questions |-> "¿Cómo preparo el Encebollado para una cena familiar?",
       questions_category |-> "General", question_type |-> "contextual"],
      [recipe_id |-> 7, questions |-> "¿Qué técnica espesa el Locro de papa?",
       questions_category |-> "Técnicas", question_type |-> "conceptual"],
      [recipe_id |-> 7, questions |-> "", questions_category |-> "General",
       question_type |-> "contextual"],
      [recipe_id |-> 0, questions |-> "¿Qué es?", questions_category |-> "General",
       question_type |-> "contextual"],
      [recipe_id |-> 7, questions |-> "¿De dónde viene el Locro de papa?",
       questions_category |-> "Contexto cultural"]>>

QuestionFiles ==
    {[exists |-> TRUE, parseable |-> TRUE, data |-> BankData],
     [exists |-> TRUE, parseable |-> FALSE, data |-> <<>>],
     [exists |-> FALSE, parseable |-> FALSE, data |-> <<>>]}

-----------------------------------------------------------------------------
(* __init__: the fixed tables *)

category_mapping ==
    [General |-> "basic_recipe"] @@
    ("Ingredientes y preparación" :> "ingredients") @@
    ("Técnicas" :> "cooking_techniques") @@
    ("Tiempo y planificación" :> "time_and_planning") @@
    ("Información nutricional" :> "nutritional_info") @@
    ("Porciones" :> "scaling_portions") @@
    ("Solución de problemas" :> "troubleshooting") @@
    ("Contexto cultural" :> "cultural_context") @@
    ("Opción múltiple" :> "multiple_choice")

\* Each prompt text is named by its key; the texts are pairwise different.
system_messages ==
    [recipe_instructions |-> "prompt:recipe_instructions",
     ingredient_knowledge |-> "prompt:ingredient_knowledge",
     technique_questions |-> "prompt:technique_questions",
     cultural_context |-> "prompt:cultural_context",
     troubleshooting |-> "prompt:troubleshooting",
     nutritional_expert |-> "prompt:nutritional_expert",
     multiple_choice_expert |-> "prompt:multiple_choice_expert",
     base_expert |-> "prompt:base_expert"]

-----------------------------------------------------------------------------
(* _load_questions_bank *)

HasRecipeId(item) == "recipe_id" \in DOMAIN item /\ item.recipe_id # 0

LoadQuestionsBank(file) ==
    IF ~file.exists THEN <<>>
    ELSE IF ~file.parseable THEN <<>>
    ELSE LET data == file.data
             ids == {data[i].recipe_id : i \in {k \in 1..Len(data) : HasRecipeId(data[k])}}
             Of(id) == LET Mine(item) == HasRecipeId(item) /\ item.recipe_id = id
                       IN  SelectSeq(data, Mine)
         IN  [id \in ids |-> Of(id)]

-----------------------------------------------------------------------------
(* get_recipe_questions *)

\* Mutant: a label outside the table is kept as the category.
RECURSIVE MapQuestionsKeepsUnknownLabel(_)
MapQuestionsKeepsUnknownLabel(items) ==
    IF items = <<>> THEN <<>>
    ELSE LET item == Head(items)
             question_text == Get(item, "questions", "")
             questions_category == Get(item, "questions_category", "General")
             question_type == Get(item, "question_type", "contextual")
             mapped_category == Get(category_mapping, questions_category, questions_category)
         IN  IF question_text = "" THEN MapQuestionsKeepsUnknownLabel(Tail(items))
             ELSE <<<<question_text, mapped_category, question_type>>>>
                  \o MapQuestionsKeepsUnknownLabel(Tail(items))

RECURSIVE MapQuestions(_)
MapQuestions(items) ==
    IF items = <<>> THEN <<>>
    ELSE LET item == Head(items)
             question_text == Get(item, "questions", "")
             questions_category == Get(item, "questions_category", "General")
             question_type == Get(item, "question_type", "contextual")
             mapped_category == Get(category_mapping, questions_category, "basic_recipe")
         IN  IF question_text = "" THEN MapQuestions(Tail(items))
             ELSE <<<<question_text, mapped_category, question_type>>>>
                  \o MapQuestions(Tail(items))

\* Mutant: a recipe without bank entries gets one generic question.
GetRecipeQuestionsWithDefault(bank, recipe) ==
    IF "id" \notin DOMAIN recipe \/ recipe.id = 0 THEN <<>>
    ELSE LET questions_data == Get(bank, recipe.id, <<>>)
         IN  IF questions_data = <<>>
             THEN <<<<"¿Cómo se prepara?", "basic_recipe", "contextual">>>>
             ELSE MapQuestions(questions_data)

GetRecipeQuestions(bank, recipe) ==
    IF "id" \notin DOMAIN recipe \/ recipe.id = 0 THEN <<>>
    ELSE LET questions_data == Get(bank, recipe.id, <<>>)
         IN  IF questions_data = <<>> THEN <<>>
             ELSE MapQuestions(questions_data)

-----------------------------------------------------------------------------
(* _select_system_message *)

\* Mutant: the persona table has no row for scaling_portions.
SelectSystemMessageWithoutScaling(category) ==
    LET persona ==
            [basic_recipe |-> "recipe_instructions",
             ingredients |-> "ingredient_knowledge",
             cooking_techniques |-> "technique_questions",
             cultural_context |-> "cultural_context",
             troubleshooting |-> "troubleshooting",
             nutritional_info |-> "nutritional_expert",
             time_and_planning |-> "recipe_instructions",
             multiple_choice |-> "multiple_choice_expert"]
        message_type == Get(persona, category, "base_expert")
    IN  system_messages[message_type]

SelectSystemMessage(category) ==
    LET persona ==
            [basic_recipe |-> "recipe_instructions",
             ingredients |-> "ingredient_knowledge",
             cooking_techniques |-> "technique_questions",
             cultural_context |-> "cultural_context",
             troubleshooting |-> "troubleshooting",
             nutritional_info |-> "nutritional_expert",
             time_and_planning |-> "recipe_instructions",
             scaling_portions |-> "recipe_instructions",
             multiple_choice |-> "multiple_choice_expert"]
        message_type == Get(persona, category, "base_expert")
    IN  system_messages[message_type]

-----------------------------------------------------------------------------
(* generate_chosen_response, generate_rejected_response *)

\* Keys the prompt reads with recipe[...] before the try block of either call.
PromptKeys == {"nombre", "ingredientes", "tiempo", "dificultad", "racion", "pasos"}

PromptRaises(recipe) == ~(PromptKeys \subseteq DOMAIN recipe)

\* Mutant: the except branch returns an empty text.
ChosenResponseEmptyOnFailure(reply) ==
    IF reply = <<>> THEN "" ELSE reply[1]

\* reply: <<>> when co.chat raised, <<text>> when it returned
GenerateChosenResponse(reply) ==
    IF reply = <<>> THEN ApologyText ELSE reply[1]

\* Mutant: the except branch returns an empty text.
RejectedResponseEmptyOnFailure(reply) ==
    IF reply = <<>> THEN "" ELSE reply[1]

GenerateRejectedResponse(reply) ==
    IF reply = <<>> THEN FallbackText ELSE reply[1]

-----------------------------------------------------------------------------
(* generate_dpo_pair *)

DifficultyLevel(category) ==
    LET difficulty_mapping ==
            [basic_recipe |-> "beginner",
             ingredients |-> "beginner",
             cooking_techniques |-> "intermediate",
             cultural_context |-> "advanced",
             troubleshooting |-> "intermediate",
             nutritional_info |-> "intermediate",
             time_and_planning |-> "beginner",
             scaling_portions |-> "intermediate",
             multiple_choice |-> "intermediate"]
    IN  Get(difficulty_mapping, category, "intermediate")

GenerateDpoPair(recipe, question, category, context, cho, rej) ==
    [messages |-> <<[role |-> "system", content |-> SelectSystemMessage(category)],
                    [role |-> "user", content |-> question]>>,
     chosen |-> cho,
     rejected |-> rej,
     metadata |-> [recipe_id |-> recipe.id,
                   recipe_name |-> recipe.nombre,
                   category |-> category,
                   context |-> context,
                   difficulty_level |-> DifficultyLevel(category),
                   recipe_category |-> Get(recipe, "categoria", "N/A"),
                   recipe_country |-> Get(recipe, "pais", "Ecuador")]]

-----------------------------------------------------------------------------
(* validate_dpo_pair_object *)

RequiredMetadata == {"recipe_id", "recipe_name", "category", "context"}

\* Mutant: the minimum length check of line 334 is missing.
ValidateWithoutMinLength(dpo_pair) ==
    IF \/ dpo_pair.messages = <<>>
       \/ dpo_pair.chosen = ""
       \/ dpo_pair.rejected = ""
       \/ DOMAIN dpo_pair.metadata = {}
    THEN FALSE
    ELSE IF Len(dpo_pair.messages) # 2 THEN FALSE
    ELSE IF "role" \notin DOMAIN dpo_pair.messages[1] THEN FALSE
    ELSE IF dpo_pair.messages[1].role # "system" THEN FALSE
    ELSE IF "role" \notin DOMAIN dpo_pair.messages[2] THEN FALSE
    ELSE IF dpo_pair.messages[2].role # "user" THEN FALSE
    ELSE IF dpo_pair.chosen = dpo_pair.rejected THEN FALSE
    ELSE IF ~(RequiredMetadata \subseteq DOMAIN dpo_pair.metadata) THEN FALSE
    ELSE TRUE

\* Mutant: the metadata completeness check of line 343 is missing.
ValidateWithoutMetadataCheck(dpo_pair) ==
    IF \/ dpo_pair.messages = <<>>
       \/ dpo_pair.chosen = ""
       \/ dpo_pair.rejected = ""
       \/ DOMAIN dpo_pair.metadata = {}
    THEN FALSE
    ELSE IF Len(dpo_pair.messages) # 2 THEN FALSE
    ELSE IF "role" \notin DOMAIN dpo_pair.messages[1] THEN FALSE
    ELSE IF dpo_pair.messages[1].role # "system" THEN FALSE
    ELSE IF "role" \notin DOMAIN dpo_pair.messages[2] THEN FALSE
    ELSE IF dpo_pair.messages[2].role # "user" THEN FALSE
    ELSE IF Len(dpo_pair.chosen) < MinChosenLen \/ Len(dpo_pair.rejected) < MinRejectedLen
    THEN FALSE
    ELSE IF dpo_pair.chosen = dpo_pair.rejected THEN FALSE
    ELSE TRUE

\* An exception inside the try block (a message without "role") returns False.
ValidateDpoPairObject(dpo_pair) ==
    IF \/ dpo_pair.messages = <<>>
       \/ dpo_pair.chosen = ""
       \/ dpo_pair.rejected = ""
       \/ DOMAIN dpo_pair.metadata = {}
    THEN FALSE
    ELSE IF Len(dpo_pair.messages) # 2 THEN FALSE
    ELSE IF "role" \notin DOMAIN dpo_pair.messages[1] THEN FALSE
    ELSE IF dpo_pair.messages[1].role # "system" THEN FALSE
    ELSE IF "role" \notin DOMAIN dpo_pair.messages[2] THEN FALSE
    ELSE IF dpo_pair.messages[2].role # "user" THEN FALSE
    ELSE IF Len(dpo_pair.chosen) < MinChosenLen \/ Len(dpo_pair.rejected) < MinRejectedLen
    THEN FALSE
    ELSE IF dpo_pair.chosen = dpo_pair.rejected THEN FALSE
    ELSE IF ~(RequiredMetadata \subseteq DOMAIN dpo_pair.metadata) THEN FALSE
    ELSE TRUE

-----------------------------------------------------------------------------
(* validate_dpo_pair: the validator of the legacy save_dataset, on a dict *)

\* Mutant: the dict validator has no guard against empty texts and relies
\* on a minimum length of 20 for both sides.
ValidateDpoPairLooseLength(pair) ==
    IF ~({"messages", "chosen", "rejected", "metadata"} \subseteq DOMAIN pair) THEN FALSE
    ELSE IF Len(pair.messages) # 2 THEN FALSE
    ELSE IF "role" \notin DOMAIN pair.messages[1] THEN FALSE
    ELSE IF pair.messages[1].role # "system" THEN FALSE
    ELSE IF "role" \notin DOMAIN pair.messages[2] THEN FALSE
    ELSE IF pair.messages[2].role # "user" THEN FALSE
    ELSE IF Len(pair.chosen) < MinRejectedLen \/ Len(pair.rejected) < MinRejectedLen
    THEN FALSE
    ELSE IF pair.chosen = pair.rejected THEN FALSE
    ELSE IF ~(RequiredMetadata \subseteq DOMAIN pair.metadata) THEN FALSE
    ELSE TRUE

\* The four fields must be present, not non-empty; an exception inside the
\* try block (a message without "role") returns False.
ValidateDpoPair(pair) ==
    IF ~({"messages", "chosen", "rejected", "metadata"} \subseteq DOMAIN pair) THEN FALSE
    ELSE IF Len(pair.messages) # 2 THEN FALSE
    ELSE IF "role" \notin DOMAIN pair.messages[1] THEN FALSE
    ELSE IF pair.messages[1].role # "system" THEN FALSE
    ELSE IF "role" \notin DOMAIN pair.messages[2] THEN FALSE
    ELSE IF pair.messages[2].role # "user" THEN FALSE
    ELSE IF Len(pair.chosen) < MinChosenLen \/ Len(pair.rejected) < MinRejectedLen
    THEN FALSE
    ELSE IF pair.chosen = pair.rejected THEN FALSE
    ELSE IF ~(RequiredMetadata \subseteq DOMAIN pair.metadata) THEN FALSE
    ELSE TRUE

-----------------------------------------------------------------------------
(* save_dpo_pair_incremental *)

LogLine(dpo_pair, session) ==
    [messages |-> dpo_pair.messages,
     chosen |-> dpo_pair.chosen,
     rejected |-> dpo_pair.rejected,
     metadata |-> dpo_pair.metadata,
     timestamp |-> Now,
     session_id |-> session]

\* Mutant: no try/except around the write, the error reaches the caller.
SaveLetsWriteErrorEscape(dpo_pair, log, session, write_ok) ==
    IF ~ValidateDpoPairObject(dpo_pair)
    THEN [raised |-> FALSE, ret |-> FALSE, log |-> log]
    ELSE IF ~write_ok
    THEN [raised |-> TRUE, ret |-> FALSE, log |-> log]
    ELSE [raised |-> FALSE, ret |-> TRUE, log |-> Append(log, LogLine(dpo_pair, session))]

\* Mutant: a pair refused by the validator is reported as saved.
SaveReportsSkippedPairAsSaved(dpo_pair, log, session, write_ok) ==
    IF ~ValidateDpoPairObject(dpo_pair)
    THEN [raised |-> FALSE, ret |-> TRUE, log |-> log]
    ELSE IF ~write_ok
    THEN [raised |-> FALSE, ret |-> FALSE, log |-> log]
    ELSE [raised |-> FALSE, ret |-> TRUE, log |-> Append(log, LogLine(dpo_pair, session))]

\* Mutant: the session file is opened with 'w' instead of 'a'.
SaveTruncatesLog(dpo_pair, log, session, write_ok) ==
    IF ~ValidateDpoPairObject(dpo_pair)
    THEN [raised |-> FALSE, ret |-> FALSE, log |-> log]
    ELSE IF ~write_ok
    THEN [raised |-> FALSE, ret |-> FALSE, log |-> log]
    ELSE [raised |-> FALSE, ret |-> TRUE, log |-> <<LogLine(dpo_pair, session)>>]

\* log: the lines of the session file; write_ok: open(session_file, 'a') works.
\* Returns what the caller sees (raised, ret) and the file afterwards.
SaveDpoPairIncremental(dpo_pair, log, session, write_ok) ==
    IF ~ValidateDpoPairObject(dpo_pair)
    THEN [raised |-> FALSE, ret |-> FALSE, log |-> log]
    ELSE IF ~write_ok
    THEN [raised |-> FALSE, ret |-> FALSE, log |-> log]
    ELSE [raised |-> FALSE, ret |-> TRUE, log |-> Append(log, LogLine(dpo_pair, session))]

-----------------------------------------------------------------------------
(* save_progress, load_progress *)

\* Mutant: the record names the next question, as if saved after the attempt.
ProgressRecordAfterAttempt(session, current_recipe_idx, total_recipes, current_question_idx, total_questions, recipe_name) ==
    [session_id |-> session,
     timestamp |-> Now,
     current_recipe_idx |-> current_recipe_idx,
     total_recipes |-> total_recipes,
     current_question_idx |-> current_question_idx + 1,
     total_questions |-> total_questions,
     current_recipe_name |-> recipe_name,
     completion_num |-> current_recipe_idx * total_questions + current_question_idx + 1,
     completion_den |-> total_recipes * total_questions]

\* Mutant: the completion ratio is that of the current recipe alone.
ProgressRecordPerRecipeRatio(session, current_recipe_idx, total_recipes, current_question_idx, total_questions, recipe_name) ==
    [session_id |-> session,
     timestamp |-> Now,
     current_recipe_idx |-> current_recipe_idx,
     total_recipes |-> total_recipes,
     current_question_idx |-> current_question_idx,
     total_questions |-> total_questions,
     current_recipe_name |-> recipe_name,
     completion_num |-> current_question_idx,
     completion_den |-> total_questions]

ProgressRecord(session, current_recipe_idx, total_recipes, current_question_idx, total_questions, recipe_name) ==
    [session_id |-> session,
     timestamp |-> Now,
     current_recipe_idx |-> current_recipe_idx,
     total_recipes |-> total_recipes,
     current_question_idx |-> current_question_idx,
     total_questions |-> total_questions,
     current_recipe_name |-> recipe_name,
     \* the percentage is completion_num / completion_den * 100
     completion_num |-> current_recipe_idx * total_questions + current_question_idx,
     completion_den |-> total_recipes * total_questions]

LoadProgress(file) == file

-----------------------------------------------------------------------------
(* process_recipe_batch_incremental: the resume offset *)

\* Mutant: the saved offset is ignored.
StartRecipeIdxFromZero(progress, resume, answer) == 0

StartRecipeIdx(progress, resume, answer) ==
    IF resume /\ progress # <<>> /\ answer = "y"
    THEN Get(progress[1], "current_recipe_idx", 0)
    ELSE 0

-----------------------------------------------------------------------------
(* convert_jsonl_to_json *)

\* Mutant: the session id is not stripped.
CleanPairKeepingSession(pair) ==
    [messages |-> pair.messages,
     chosen |-> pair.chosen,
     rejected |-> pair.rejected,
     metadata |-> pair.metadata,
     session_id |-> pair.session_id]

CleanPair(pair) ==
    [messages |-> pair.messages,
     chosen |-> pair.chosen,
     rejected |-> pair.rejected,
     metadata |-> pair.metadata]

\* A line of the session file is a record; a whitespace-only line is the
\* record [blank |-> TRUE] and a line json.loads rejects is a record without
\* the four keys.
IsBlank(line) == "blank" \in DOMAIN line

NonBlankLines(log) == LET Kept(line) == ~IsBlank(line) IN SelectSeq(log, Kept)

LineParses(line) ==
    {"messages", "chosen", "rejected", "metadata"} \subseteq DOMAIN line

RECURSIVE CleanLines(_)
CleanLines(lines) ==
    IF lines = <<>> THEN <<>>
    ELSE <<CleanPair(Head(lines))>> \o CleanLines(Tail(lines))

\* Mutant: a missing session file is taken for an empty one and an empty
\* array is written.
ConvertWritesEmptyDataset(log, out_ok) ==
    LET lines == NonBlankLines(log)
    IN  IF \E i \in 1..Len(lines) : ~LineParses(lines[i]) THEN <<>>
        ELSE IF ~out_ok THEN <<>>
        ELSE <<CleanLines(lines)>>

\* Mutant: a line that cannot be used is skipped and the others are written.
ConvertSkipsBadLines(log, out_ok) ==
    IF log = <<>> THEN <<>>
    ELSE IF ~out_ok THEN <<>>
    ELSE <<CleanLines(SelectSeq(NonBlankLines(log), LineParses))>>

\* log = <<>>: the session file does not exist and open raises.
\* Returns <<>> for the "" result, else <<the array written>>.
ConvertJsonlToJson(log, out_ok) ==
    IF log = <<>> THEN <<>>
    ELSE LET lines == NonBlankLines(log)
         IN  IF \E i \in 1..Len(lines) : ~LineParses(lines[i]) THEN <<>>
             ELSE IF ~out_ok THEN <<>>
             ELSE <<CleanLines(lines)>>

-----------------------------------------------------------------------------
(* The generator process *)

Running == {"constructed", "recipe", "save", "chosen", "rejected", "append",
            "sleep", "completed"}

CurrentRecipe == recipes[recipe_idx + 1]

CurrentQuestions == GetRecipeQuestions(questions_bank, CurrentRecipe)

CurrentQuestion == CurrentQuestions[question_idx + 1]

NoSave == [called |-> FALSE, raised |-> FALSE, ret |-> FALSE, write_ok |-> FALSE,
           valid |-> FALSE]

\* The other scripts are not running.
ScraperIdle == [pc |-> "off"]

ParquetIdle == [pc |-> "off"]

InitTools ==
    /\ v_dict_verdict = "unchecked"
    /\ scraper = ScraperIdle
    /\ parquet = ParquetIdle

\* Before the first process: an empty output directory, nothing running.
InitLocals ==
    /\ progress_file = NoFile
    /\ session_logs = [s \in 1..MaxSessions |-> <<>>]
    /\ final_datasets = [s \in 1..MaxSessions |-> NoFile]
    /\ current_session = 0
    /\ questions_bank = <<>>
    /\ pc = "idle"
    /\ start_recipe_idx = 0
    /\ recipe_idx = 0
    /\ question_idx = 0
    /\ successful_pairs = 0
    /\ failed_pairs = 0
    /\ chosen = ""
    /\ rejected = ""
    /\ final_dataset = <<>>
    /\ resumed = FALSE
    /\ resume_from = <<>>
    /\ attempted = {}
    /\ prev_attempted = {}
    /\ prev_end = "none"
    /\ chat_calls = <<>>
    /\ cho_failed = FALSE
    /\ rej_failed = FALSE
    /\ save_ok = FALSE
    /\ last_save = NoSave
    /\ final_write_ok = FALSE

InitRun ==
    /\ questions_file \in QuestionFiles
    /\ recipes \in RecipeLists
    /\ InitLocals

\* Mutant: a restarted process takes over the session of the one before it.
ConstructReusingSession(limit) ==
    /\ pc \in {"idle", "killed", "finalized", "aborted"}
    /\ current_session < limit
    /\ current_session' = IF current_session = 0 THEN 1 ELSE current_session
    /\ questions_bank' = LoadQuestionsBank(questions_file)
    /\ pc' = "constructed"
    /\ prev_end' = IF pc = "idle" THEN "none" ELSE pc
    /\ prev_attempted' = attempted
    /\ attempted' = {}
    /\ chat_calls' = <<>>
    /\ start_recipe_idx' = 0
    /\ recipe_idx' = 0
    /\ question_idx' = 0
    /\ successful_pairs' = 0
    /\ failed_pairs' = 0
    /\ chosen' = ""
    /\ rejected' = ""
    /\ final_dataset' = <<>>
    /\ resumed' = FALSE
    /\ resume_from' = <<>>
    /\ cho_failed' = FALSE
    /\ rej_failed' = FALSE
    /\ save_ok' = FALSE
    /\ last_save' = NoSave
    /\ final_write_ok' = FALSE
    /\ UNCHANGED <<questions_file, recipes, progress_file, session_logs,
                   final_datasets, v_pair, v_verdict, tool_vars>>

\* __init__ of a new process: a new session id, the bank loaded from the file.
\* limit: how many processes are started over the same output directory.
Construct(limit) ==
    /\ pc \in {"idle", "killed", "finalized", "aborted"}
    /\ current_session < limit
    /\ current_session' = current_session + 1
    /\ questions_bank' = LoadQuestionsBank(questions_file)
    /\ pc' = "constructed"
    /\ prev_end' = IF pc = "idle" THEN "none" ELSE pc
    /\ prev_attempted' = attempted
    /\ attempted' = {}
    /\ chat_calls' = <<>>
    /\ start_recipe_idx' = 0
    /\ recipe_idx' = 0
    /\ question_idx' = 0
    /\ successful_pairs' = 0
    /\ failed_pairs' = 0
    /\ chosen' = ""
    /\ rejected' = ""
    /\ final_dataset' = <<>>
    /\ resumed' = FALSE
    /\ resume_from' = <<>>
    /\ cho_failed' = FALSE
    /\ rej_failed' = FALSE
    /\ save_ok' = FALSE
    /\ last_save' = NoSave
    /\ final_write_ok' = FALSE
    /\ UNCHANGED <<questions_file, recipes, progress_file, session_logs,
                   final_datasets, v_pair, v_verdict, tool_vars>>

\* process_recipe_batch_incremental, lines 404-418: the resume prompt.
StartBatch(resume, answer) ==
    /\ pc = "constructed"
    /\ LET progress == LoadProgress(progress_file)
           start == StartRecipeIdx(progress, resume, answer)
       IN  /\ start_recipe_idx' = start
           /\ recipe_idx' = start
           /\ resumed' = (resume /\ progress # <<>> /\ answer = "y")
           /\ resume_from' = IF resume /\ progress # <<>> /\ answer = "y"
                             THEN progress ELSE <<>>
    /\ successful_pairs' = 0
    /\ failed_pairs' = 0
    /\ pc' = "recipe"
    /\ UNCHANGED <<questions_file, recipes, progress_file, session_logs,
                   final_datasets, current_session, questions_bank, question_idx,
                   chosen, rejected, final_dataset, attempted, prev_attempted,
                   prev_end, chat_calls, cho_failed, rej_failed, save_ok,
                   last_save, final_write_ok,
                   v_pair, v_verdict, tool_vars>>

\* The head of the recipe loop, lines 420-428: recipe['nombre'] is read
\* outside every try block.
BeginRecipe ==
    /\ pc = "recipe"
    /\ IF recipe_idx >= Len(recipes)
       THEN /\ pc' = "completed"
            /\ UNCHANGED <<recipe_idx, question_idx>>
       ELSE IF "nombre" \notin DOMAIN CurrentRecipe
       THEN /\ pc' = "aborted"
            /\ UNCHANGED <<recipe_idx, question_idx>>
       ELSE IF CurrentQuestions = <<>>
       THEN /\ pc' = "recipe"
            /\ recipe_idx' = recipe_idx + 1
            /\ UNCHANGED question_idx
       ELSE /\ pc' = "save"
            /\ question_idx' = 0
            /\ UNCHANGED recipe_idx
    /\ UNCHANGED <<questions_file, recipes, progress_file, session_logs,
                   final_datasets, current_session, questions_bank,
                   start_recipe_idx, successful_pairs, failed_pairs, chosen,
                   rejected, final_dataset, resumed, resume_from, attempted,
                   prev_attempted, prev_end, chat_calls, cho_failed, rej_failed,
                   save_ok, last_save, final_write_ok,
                   v_pair, v_verdict, tool_vars>>

\* Where the question loop goes after question question_idx of recipe recipe_idx.
AdvanceQuestion ==
    IF question_idx + 1 < Len(CurrentQuestions)
    THEN /\ pc' = "save"
         /\ question_idx' = question_idx + 1
         /\ UNCHANGED recipe_idx
    ELSE /\ pc' = "recipe"
         /\ recipe_idx' = recipe_idx + 1
         /\ question_idx' = 0

\* Line 431: save_progress, the first statement of the try block.
SaveProgress(write_ok) ==
    /\ pc = "save"
    /\ attempted' = attempted \cup {<<recipe_idx, question_idx>>}
    /\ progress_file' =
          IF write_ok
          THEN <<ProgressRecord(current_session, recipe_idx, Len(recipes),
                                question_idx, Len(CurrentQuestions),
                                CurrentRecipe.nombre)>>
          ELSE progress_file
    /\ save_ok' = write_ok
    /\ chosen' = ""
    /\ rejected' = ""
    /\ cho_failed' = FALSE
    /\ rej_failed' = FALSE
    /\ last_save' = NoSave
    /\ pc' = "chosen"
    /\ UNCHANGED <<questions_file, recipes, session_logs, final_datasets,
                   current_session, questions_bank, start_recipe_idx, recipe_idx,
                   question_idx, successful_pairs, failed_pairs, final_dataset,
                   resumed, resume_from, prev_attempted, prev_end, chat_calls,
                   final_write_ok,
                   v_pair, v_verdict, tool_vars>>

\* generate_dpo_pair, line 262.  A recipe without a key the prompt reads
\* raises KeyError before the chat call; the loop's except counts it.
GenChosen(reply) ==
    /\ pc = "chosen"
    /\ IF PromptRaises(CurrentRecipe)
       THEN /\ failed_pairs' = failed_pairs + 1
            /\ AdvanceQuestion
            /\ UNCHANGED <<chosen, cho_failed, chat_calls>>
       ELSE /\ chosen' = GenerateChosenResponse(reply)
            /\ cho_failed' = (reply = <<>>)
            /\ chat_calls' = Append(chat_calls, <<recipe_idx, question_idx, "chosen">>)
            /\ pc' = "rejected"
            /\ UNCHANGED <<failed_pairs, recipe_idx, question_idx>>
    /\ UNCHANGED <<questions_file, recipes, progress_file, session_logs,
                   final_datasets, current_session, questions_bank,
                   start_recipe_idx, successful_pairs, rejected, final_dataset,
                   resumed, resume_from, attempted, prev_attempted, prev_end,
                   rej_failed, save_ok, last_save, final_write_ok,
                   v_pair, v_verdict, tool_vars>>

\* Mutant: the rejected text is produced without a call to the chat service.
GenRejectedWithoutChat(reply) ==
    /\ pc = "rejected"
    /\ rejected' = FallbackText
    /\ rej_failed' = FALSE
    /\ pc' = "append"
    /\ UNCHANGED <<questions_file, recipes, progress_file, session_logs,
                   final_datasets, current_session, questions_bank,
                   start_recipe_idx, recipe_idx, question_idx, successful_pairs,
                   failed_pairs, chosen, final_dataset, resumed, resume_from,
                   attempted, prev_attempted, prev_end, chat_calls, cho_failed,
                   save_ok, last_save, final_write_ok,
                   v_pair, v_verdict, tool_vars>>

\* generate_dpo_pair, line 263.
GenRejected(reply) ==
    /\ pc = "rejected"
    /\ rejected' = GenerateRejectedResponse(reply)
    /\ rej_failed' = (reply = <<>>)
    /\ chat_calls' = Append(chat_calls, <<recipe_idx, question_idx, "rejected">>)
    /\ pc' = "append"
    /\ UNCHANGED <<questions_file, recipes, progress_file, session_logs,
                   final_datasets, current_session, questions_bank,
                   start_recipe_idx, recipe_idx, question_idx, successful_pairs,
                   failed_pairs, chosen, final_dataset, resumed, resume_from,
                   attempted, prev_attempted, prev_end, cho_failed, save_ok,
                   last_save, final_write_ok,
                   v_pair, v_verdict, tool_vars>>

CurrentPair ==
    GenerateDpoPair(CurrentRecipe, CurrentQuestion[1], CurrentQuestion[2],
                    CurrentQuestion[3], chosen, rejected)

\* Lines 264-288 and 439-443: the pair is built and handed to
\* save_dpo_pair_incremental; an exception would reach the except of line 448.
AppendToLog(write_ok) ==
    /\ pc = "append"
    /\ LET r == SaveDpoPairIncremental(CurrentPair, session_logs[current_session],
                                       current_session, write_ok)
       IN  /\ session_logs' = [session_logs EXCEPT ![current_session] = r.log]
           /\ last_save' = [called |-> TRUE, raised |-> r.raised, ret |-> r.ret,
                            write_ok |-> write_ok,
                            valid |-> ValidateDpoPairObject(CurrentPair)]
           /\ IF r.raised
              THEN /\ failed_pairs' = failed_pairs + 1
                   /\ UNCHANGED successful_pairs
                   /\ AdvanceQuestion
              ELSE /\ IF r.ret
                      THEN /\ successful_pairs' = successful_pairs + 1
                           /\ UNCHANGED failed_pairs
                      ELSE /\ failed_pairs' = failed_pairs + 1
                           /\ UNCHANGED successful_pairs
                   /\ pc' = "sleep"
                   /\ UNCHANGED <<recipe_idx, question_idx>>
    /\ UNCHANGED <<questions_file, recipes, progress_file, final_datasets,
                   current_session, questions_bank, start_recipe_idx, chosen,
                   rejected, final_dataset, resumed, resume_from, attempted,
                   prev_attempted, prev_end, chat_calls, cho_failed, rej_failed,
                   save_ok, final_write_ok,
                   v_pair, v_verdict, tool_vars>>

\* Line 446: time.sleep(0.5), then the next question; the pair is dropped.
Sleep ==
    /\ pc = "sleep"
    /\ AdvanceQuestion
    /\ chosen' = ""
    /\ rejected' = ""
    /\ cho_failed' = FALSE
    /\ rej_failed' = FALSE
    /\ last_save' = NoSave
    /\ UNCHANGED <<questions_file, recipes, progress_file, session_logs,
                   final_datasets, current_session, questions_bank,
                   start_recipe_idx, successful_pairs, failed_pairs,
                   final_dataset, resumed, resume_from, attempted,
                   prev_attempted, prev_end, chat_calls, save_ok, final_write_ok,
                   v_pair,
                   v_verdict, tool_vars>>

FinalPath(session) == "dpo_output/recipes_dpo_" \o ToString(session) \o ".json"

\* Mutant: the progress file is removed once the dataset is finalized.
FinalizeClearsProgress(out_ok) ==
    /\ pc = "completed"
    /\ LET out == ConvertJsonlToJson(session_logs[current_session], out_ok)
       IN  /\ final_datasets' =
                 IF out = <<>> THEN final_datasets
                 ELSE [final_datasets EXCEPT ![current_session] = out]
           /\ final_dataset' = IF out = <<>> THEN <<"">>
                               ELSE <<FinalPath(current_session)>>
    /\ final_write_ok' = out_ok
    /\ progress_file' = NoFile
    /\ pc' = "finalized"
    /\ UNCHANGED <<questions_file, recipes, session_logs,
                   current_session, questions_bank, start_recipe_idx, recipe_idx,
                   question_idx, successful_pairs, failed_pairs, chosen, rejected,
                   resumed, resume_from, attempted, prev_attempted, prev_end,
                   chat_calls, cho_failed, rej_failed, save_ok, last_save,
                   v_pair, v_verdict, tool_vars>>

\* generate_complete_dataset, lines 621-636, after the batch returned.
Finalize(out_ok) ==
    /\ pc = "completed"
    /\ LET out == ConvertJsonlToJson(session_logs[current_session], out_ok)
       IN  /\ final_datasets' =
                 IF out = <<>> THEN final_datasets
                 ELSE [final_datasets EXCEPT ![current_session] = out]
           /\ final_dataset' = IF out = <<>> THEN <<"">>
                               ELSE <<FinalPath(current_session)>>
    /\ final_write_ok' = out_ok
    /\ pc' = "finalized"
    /\ UNCHANGED <<questions_file, recipes, progress_file, session_logs,
                   current_session, questions_bank, start_recipe_idx, recipe_idx,
                   question_idx, successful_pairs, failed_pairs, chosen, rejected,
                   resumed, resume_from, attempted, prev_attempted, prev_end,
                   chat_calls, cho_failed, rej_failed, save_ok, last_save,
                   v_pair, v_verdict, tool_vars>>

\* The process is terminated from outside; the files stay as they are.
Interrupt ==
    /\ pc \in Running
    /\ pc' = "killed"
    /\ start_recipe_idx' = 0
    /\ recipe_idx' = 0
    /\ question_idx' = 0
    /\ successful_pairs' = 0
    /\ failed_pairs' = 0
    /\ chosen' = ""
    /\ rejected' = ""
    /\ resumed' = FALSE
    /\ resume_from' = <<>>
    /\ chat_calls' = <<>>
    /\ cho_failed' = FALSE
    /\ rej_failed' = FALSE
    /\ save_ok' = FALSE
    /\ last_save' = NoSave
    /\ UNCHANGED <<questions_file, recipes, progress_file, session_logs,
                   final_datasets, current_session, questions_bank, final_dataset,
                   attempted, prev_attempted, prev_end, final_write_ok,
                   v_pair, v_verdict, tool_vars>>

-----------------------------------------------------------------------------
(* The validator on arbitrary pairs *)

SystemMsg == [role |-> "system", content |-> "prompt:base_expert"]

UserMsg == [role |-> "user", content |-> "¿Qué es?"]

MessageInputs ==
    {<<>>, <<SystemMsg>>, <<SystemMsg, UserMsg>>, <<UserMsg, SystemMsg>>,
     <<SystemMsg, [content |-> "¿Qué es?"]>>, <<SystemMsg, UserMsg, UserMsg>>}

MetadataInputs ==
    {[k \in D |-> "x"] : D \in SUBSET (RequiredMetadata \cup {"difficulty_level"})}

PairInputs ==
    [messages : MessageInputs,
     chosen : {"", TinyText, MidText, LongText, ApologyText},
     rejected : {"", TinyText, MidText, LongText, FallbackText},
     metadata : MetadataInputs]

SamplePair ==
    [messages |-> <<SystemMsg, UserMsg>>, chosen |-> LongText, rejected |-> MidText,
     metadata |-> [k \in RequiredMetadata |-> "x"]]

ValidateStep ==
    /\ v_verdict = "unchecked"
    /\ v_verdict' = IF ValidateDpoPairObject(v_pair) THEN "valid" ELSE "invalid"
    /\ v_dict_verdict' = IF ValidateDpoPair(v_pair) THEN "valid" ELSE "invalid"
    /\ UNCHANGED <<questions_file, recipes, progress_file, session_logs,
                   final_datasets, current_session, questions_bank, pc,
                   start_recipe_idx, recipe_idx, question_idx, successful_pairs,
                   failed_pairs, chosen, rejected, final_dataset, resumed,
                   resume_from, attempted, prev_attempted, prev_end, chat_calls,
                   cho_failed, rej_failed, save_ok, last_save, final_write_ok,
                   v_pair, scraper, parquet>>

-----------------------------------------------------------------------------
(* Specifications *)

ChatOutcomes == {<<>>} \cup {<<t>> : t \in ChatReplies}

\* The outcomes drawn when several processes follow each other: both chat
\* calls answer, with a long chosen text and a shorter rejected text.
ResumeChosenOutcomes == {<<LongText>>}

ResumeRejectedOutcomes == {<<MidText>>}

Init ==
    /\ InitRun
    /\ v_pair = SamplePair
    /\ v_verdict = "unchecked"
    /\ InitTools

\* One process over a fresh output directory.
Next ==
    \/ Construct(1)
    \/ \E resume \in BOOLEAN, answer \in {"y", "n"} : StartBatch(resume, answer)
    \/ BeginRecipe
    \/ \E write_ok \in BOOLEAN : SaveProgress(write_ok)
    \/ \E reply \in ChatOutcomes : GenChosen(reply)
    \/ \E reply \in ChatOutcomes : GenRejected(reply)
    \/ \E write_ok \in BOOLEAN : AppendToLog(write_ok)
    \/ Sleep
    \/ \E out_ok \in BOOLEAN : Finalize(out_ok)
    \/ Interrupt

Spec == Init /\ [][Next]_vars

\* Up to MaxSessions processes, one after the other, over the same output
\* directory, recipe file and question bank.  Any of them may be killed at
\* any step and any progress write may fail; the chat service answers and
\* the session log and the final dataset are writable.
NextResume ==
    \/ Construct(MaxSessions)
    \/ \E resume \in BOOLEAN, answer \in {"y", "n"} : StartBatch(resume, answer)
    \/ BeginRecipe
    \/ \E write_ok \in BOOLEAN : SaveProgress(write_ok)
    \/ \E reply \in ResumeChosenOutcomes : GenChosen(reply)
    \/ \E reply \in ResumeRejectedOutcomes : GenRejected(reply)
    \/ AppendToLog(TRUE)
    \/ Sleep
    \/ Finalize(TRUE)
    \/ Interrupt

SpecResume == Init /\ [][NextResume]_vars

\* Every pair of PairInputs handed to the validator once.
InitValidate ==
    /\ InitRun
    /\ recipes = <<>>
    /\ questions_file = [exists |-> FALSE, parseable |-> FALSE, data |-> <<>>]
    /\ v_pair \in PairInputs
    /\ v_verdict = "unchecked"
    /\ InitTools

NextValidate == ValidateStep

SpecValidate == InitValidate /\ [][NextValidate]_vars

\* finalize applied to a session file as it may be found on disk: missing,
\* or up to MaxLogLines lines, each a logged pair, a blank line, a line that
\* is not JSON or a JSON object lacking one of the four keys.
GoodLine == LogLine(SamplePair, 1)

BlankLine == [blank |-> TRUE]

GarbledLine == [garbled |-> TRUE]

LineWithout(key) == [k \in DOMAIN GoodLine \ {key} |-> GoodLine[k]]

LinePool ==
    {GoodLine, BlankLine, GarbledLine}
    \cup {LineWithout(key) : key \in {"messages", "chosen", "rejected", "metadata"}}

SessionFiles == UNION {[1..n -> LinePool] : n \in 0..MaxLogLines}

InitFinalize ==
    /\ questions_file = [exists |-> FALSE, parseable |-> FALSE, data |-> <<>>]
    /\ recipes = <<>>
    /\ progress_file = NoFile
    /\ \E log \in SessionFiles :
           session_logs = [s \in 1..MaxSessions |-> IF s = 1 THEN log ELSE <<>>]
    /\ final_datasets = [s \in 1..MaxSessions |-> NoFile]
    /\ current_session = 1
    /\ questions_bank = <<>>
    /\ pc = "completed"
    /\ start_recipe_idx = 0
    /\ recipe_idx = 0
    /\ question_idx = 0
    /\ successful_pairs = 0
    /\ failed_pairs = 0
    /\ chosen = ""
    /\ rejected = ""
    /\ final_dataset = <<>>
    /\ resumed = FALSE
    /\ resume_from = <<>>
    /\ attempted = {}
    /\ prev_attempted = {}
    /\ prev_end = "none"
    /\ chat_calls = <<>>
    /\ cho_failed = FALSE
    /\ rej_failed = FALSE
    /\ save_ok = FALSE
    /\ last_save = NoSave
    /\ final_write_ok = FALSE
    /\ v_pair = SamplePair
    /\ v_verdict = "unchecked"
    /\ InitTools

NextFinalize == \E out_ok \in BOOLEAN : Finalize(out_ok)

SpecFinalize == InitFinalize /\ [][NextFinalize]_vars

\* One bank question per run, its category label and question type drawn
\* from the labels of the table, a label outside it and no label at all.
CategoryLabels ==
    {<<l>> : l \in DOMAIN category_mapping \cup {"Postres"}} \cup {<<>>}

QuestionTypes == {<<"contextual">>, <<"conceptual">>, <<>>}

BankItem(id, label, type) ==
    [recipe_id |-> id, questions |-> "¿Cómo preparo este plato para una cena familiar?"]
    @@ (IF label = <<>> THEN <<>> ELSE [questions_category |-> label[1]])
    @@ (IF type = <<>> THEN <<>> ELSE [question_type |-> type[1]])

CategoryFiles ==
    {[exists |-> TRUE, parseable |-> TRUE, data |-> <<BankItem(id, label, type)>>] :
        id \in {7, 8}, label \in CategoryLabels, type \in QuestionTypes}

InitCategory ==
    /\ questions_file \in CategoryFiles
    /\ recipes \in {<<RecipeLocro>>, <<RecipeEncebollado>>}
    /\ InitLocals
    /\ v_pair = SamplePair
    /\ v_verdict = "unchecked"
    /\ InitTools

\* One run to the end; the chat service answers and every file is writable.
NextCategory ==
    \/ Construct(1)
    \/ StartBatch(FALSE, "n")
    \/ BeginRecipe
    \/ SaveProgress(TRUE)
    \/ GenChosen(<<LongText>>)
    \/ GenRejected(<<MidText>>)
    \/ AppendToLog(TRUE)
    \/ Sleep
    \/ Finalize(TRUE)

SpecCategory == InitCategory /\ [][NextCategory]_vars

\* Bank files of up to MaxBankItems entries, in every order, and one recipe:
\* with identifier 7, with identifier 0, or without identifier.
RecipeIdZero ==
    [id |-> 0, nombre |-> "Tigrillo", ingredientes |-> <<"verde", "queso">>,
     pasos |-> <<"Majar">>, tiempo |-> "25 min", dificultad |-> "Baja",
     racion |-> "2"]

BankItemPool ==
    {[recipe_id |-> 7, questions |-> "¿Qué técnica espesa el Locro de papa?",
      questions_category |-> "Técnicas", question_type |-> "conceptual"],
     [recipe_id |-> 7, questions |-> "", questions_category |-> "General",
      question_type |-> "contextual"],
     [recipe_id |-> 7, questions |-> "¿De dónde viene el Locro de papa?"],
     [recipe_id |-> 0, questions |-> "¿Cómo se sirve el Tigrillo?",
      questions_category |-> "Postres"],
     [questions |-> "¿Qué es?"]}

BankFiles ==
    {[exists |-> TRUE, parseable |-> TRUE, data |-> d] :
        d \in UNION {[1..n -> BankItemPool] : n \in 0..MaxBankItems}}

InitQuestions ==
    /\ questions_file \in BankFiles
    /\ recipes \in {<<RecipeLocro>>, <<RecipeIdZero>>, <<RecipeNoId>>}
    /\ InitLocals
    /\ v_pair = SamplePair
    /\ v_verdict = "unchecked"
    /\ InitTools

SpecQuestions == InitQuestions /\ [][NextCategory]_vars

-----------------------------------------------------------------------------
(* esbieta.py: the recipe scraper *)

SaveEvery == 10

\* What scrape_recipe returns for a page it could fetch and parse.
RecipeRecord(url) ==
    [title |-> "Receta", url |-> url, image_url |-> "", youtube_url |-> "",
     ingredients |-> <<>>, instructions |-> "", full_content |-> "",
     youtube_transcript |-> ""]

LoadExistingRecipes(file) ==
    IF ~file.exists THEN <<>>
    ELSE IF ~file.parseable THEN <<>>
    ELSE file.data

\* open(filename, 'w') raising leaves the file as it was; the error is logged.
SaveRecipes(recipe_list, file, write_ok) ==
    IF write_ok THEN [exists |-> TRUE, parseable |-> TRUE, data |-> recipe_list]
    ELSE file

\* all_links[:max_recipes]; max_recipes = 0 stands for None (and for 0, which
\* `if args.max_recipes:` takes for None).
LimitLinks(links, max_recipes) ==
    IF max_recipes = 0 THEN links
    ELSE SubSeq(links, 1, IF max_recipes < Len(links) THEN max_recipes ELSE Len(links))

UrlsOf(recipe_list) == {recipe_list[k].url : k \in 1..Len(recipe_list)}

LinksToScrape(links, start_index, scraped_urls) ==
    LET NotScraped(link) == link \notin scraped_urls
    IN  SelectSeq(SubSeq(links, start_index + 1, Len(links)), NotScraped)

\* [r for r in new_recipes if r], new_recipes in the order of the links.
RECURSIVE NewRecipes(_, _)
NewRecipes(links, results) ==
    IF links = <<>> THEN <<>>
    ELSE (IF Head(results) = "ok" THEN <<RecipeRecord(Head(links))>> ELSE <<>>)
         \o NewRecipes(Tail(links), Tail(results))

\* The same list taken in the order the workers finished.
RECURSIVE RecipesAsCompleted(_, _, _)
RecipesAsCompleted(links, results, finished) ==
    IF finished = <<>> THEN <<>>
    ELSE (IF results[Head(finished)] = "ok"
          THEN <<RecipeRecord(links[Head(finished)])>> ELSE <<>>)
         \o RecipesAsCompleted(links, results, Tail(finished))

ScraperStart(all_links, start_index, threads, max_recipes, file) ==
    [pc |-> "start", all_links |-> all_links, start_index |-> start_index,
     threads |-> threads, max_recipes |-> max_recipes, file |-> file,
     initial_file |-> file, recipes |-> <<>>, loaded |-> <<>>,
     links_to_scrape |-> <<>>, i |-> 0, results |-> <<>>, finished |-> <<>>,
     scraped |-> <<>>]

\* main, lines 301-322: the links, the existing file, the links left to do.
ScraperLoad ==
    /\ scraper.pc = "start"
    /\ LET links == LimitLinks(scraper.all_links, scraper.max_recipes)
           loaded == LoadExistingRecipes(scraper.file)
           scraped_urls == UrlsOf(loaded)
           todo == LinksToScrape(links, scraper.start_index, scraped_urls)
       IN  scraper' = [scraper EXCEPT
                          !.all_links = links,
                          !.recipes = loaded,
                          !.loaded = loaded,
                          !.links_to_scrape = todo,
                          !.results = [k \in 1..Len(todo) |-> "pending"],
                          !.pc = IF todo = <<>> THEN "done"
                                 ELSE IF scraper.threads > 1 THEN "pool" ELSE "seq"]
    /\ UNCHANGED <<generator_vars, parquet>>

\* main, lines 336-347: one iteration of the sequential loop.
ScrapeNext(ok, write_ok) ==
    /\ scraper.pc = "seq"
    /\ LET i == scraper.i
           link == scraper.links_to_scrape[i + 1]
           new_recipes == IF ok THEN Append(scraper.recipes, RecipeRecord(link))
                          ELSE scraper.recipes
       IN  scraper' = [scraper EXCEPT
                          !.recipes = new_recipes,
                          !.file = IF ok /\ (i + 1) % SaveEvery = 0
                                   THEN SaveRecipes(new_recipes, scraper.file, write_ok)
                                   ELSE scraper.file,
                          !.results[i + 1] = IF ok THEN "ok" ELSE "none",
                          !.scraped = Append(scraper.scraped, link),
                          !.finished = Append(scraper.finished, i + 1),
                          !.i = i + 1,
                          !.pc = IF i + 1 = Len(scraper.links_to_scrape)
                                 THEN "final" ELSE "seq"]
    /\ UNCHANGED <<generator_vars, parquet>>

Pending == {k \in 1..Len(scraper.results) : scraper.results[k] = "pending"}

InFlight == {k \in 1..Len(scraper.results) : scraper.results[k] = "running"}

\* executor.map: a free worker takes the next link in submission order and
\* enters scrape_recipe.
WorkerStart ==
    /\ scraper.pc = "pool"
    /\ Pending # {}
    /\ Cardinality(InFlight) < scraper.threads
    /\ LET k == CHOOSE j \in Pending : \A m \in Pending : j <= m
       IN  scraper' = [scraper EXCEPT
                          !.results[k] = "running",
                          !.scraped = Append(scraper.scraped, scraper.links_to_scrape[k])]
    /\ UNCHANGED <<generator_vars, parquet>>

\* scrape_recipe returns in worker k: the record, or None after an exception.
WorkerFinish(k, ok) ==
    /\ scraper.pc = "pool"
    /\ k \in InFlight
    /\ scraper' = [scraper EXCEPT
                      !.results[k] = IF ok THEN "ok" ELSE "none",
                      !.finished = Append(scraper.finished, k)]
    /\ UNCHANGED <<generator_vars, parquet>>

\* Mutant: the results are gathered as the workers complete.
CollectAsCompleted ==
    /\ scraper.pc = "pool"
    /\ Pending = {}
    /\ InFlight = {}
    /\ scraper' = [scraper EXCEPT
                      !.recipes = scraper.recipes
                                  \o RecipesAsCompleted(scraper.links_to_scrape,
                                                        scraper.results, scraper.finished),
                      !.pc = "final"]
    /\ UNCHANGED <<generator_vars, parquet>>

\* main, lines 329-333: list(executor.map(...)) once every worker is done,
\* the None results dropped, the rest appended.
CollectResults ==
    /\ scraper.pc = "pool"
    /\ Pending = {}
    /\ InFlight = {}
    /\ scraper' = [scraper EXCEPT
                      !.recipes = scraper.recipes
                                  \o NewRecipes(scraper.links_to_scrape, scraper.results),
                      !.pc = "final"]
    /\ UNCHANGED <<generator_vars, parquet>>

\* main, lines 349-351.
FinalSave(write_ok) ==
    /\ scraper.pc = "final"
    /\ scraper' = [scraper EXCEPT
                      !.file = SaveRecipes(scraper.recipes, scraper.file, write_ok),
                      !.pc = "done"]
    /\ UNCHANGED <<generator_vars, parquet>>

\* The generator is not running.
InitGeneratorIdle ==
    /\ questions_file = [exists |-> FALSE, parseable |-> FALSE, data |-> <<>>]
    /\ recipes = <<>>
    /\ InitLocals
    /\ v_pair = SamplePair
    /\ v_verdict = "unchecked"
    /\ v_dict_verdict = "unchecked"

\* The index page lists up to MaxLinks links over two recipe pages, a page
\* possibly more than once; the output file is missing, unreadable, or holds
\* the records of an earlier run.
Urls == {"https://www.recetasdesbieta.com/encebollado/",
         "https://www.recetasdesbieta.com/locro/"}

LinkLists == UNION {[1..n -> Urls] : n \in 0..MaxLinks}

OutputFiles ==
    {[exists |-> FALSE, parseable |-> FALSE, data |-> <<>>],
     [exists |-> TRUE, parseable |-> FALSE, data |-> <<>>]}
    \cup {[exists |-> TRUE, parseable |-> TRUE, data |-> d] :
             d \in {<<>>} \cup {<<RecipeRecord(u)>> : u \in Urls}
                   \cup {<<RecipeRecord(p[1]), RecipeRecord(p[2])>> :
                            p \in {q \in Urls \X Urls : q[1] # q[2]}}}

InitScrape ==
    /\ InitGeneratorIdle
    /\ parquet = ParquetIdle
    /\ \E all_links \in LinkLists, start_index \in {0, 1}, threads \in {1, 2},
          max_recipes \in {0, 2}, file \in OutputFiles :
           scraper = ScraperStart(all_links, start_index, threads, max_recipes, file)

NextScrape ==
    \/ ScraperLoad
    \/ \E ok \in BOOLEAN : ScrapeNext(ok, TRUE)
    \/ WorkerStart
    \/ \E k \in InFlight, ok \in BOOLEAN : WorkerFinish(k, ok)
    \/ CollectResults
    \/ \E write_ok \in BOOLEAN : FinalSave(write_ok)

SpecScrape == InitScrape /\ [][NextScrape]_vars

\* A sequential run over MaxLongLinks different pages and no output file;
\* every write succeeds.
LongLinks == [k \in 1..MaxLongLinks |-> "https://www.recetasdesbieta.com/receta-" \o ToString(k) \o "/"]

InitScrapeLong ==
    /\ InitGeneratorIdle
    /\ parquet = ParquetIdle
    /\ scraper = ScraperStart(LongLinks, 0, 1, 0,
                              [exists |-> FALSE, parseable |-> FALSE, data |-> <<>>])

NextScrapeLong ==
    \/ ScraperLoad
    \/ \E ok \in BOOLEAN : ScrapeNext(ok, TRUE)
    \/ FinalSave(TRUE)

SpecScrapeLong == InitScrapeLong /\ [][NextScrapeLong]_vars

-----------------------------------------------------------------------------
(* convert_json_to_parquet.py *)

\* dict.get(key) without default: <<>> stands for None.
GetOrNone(d, k) == IF k \in DOMAIN d THEN <<d[k]>> ELSE <<>>

\* Lines 27-33: the metadata read at line 25 is not used.
FlattenRecord(record) ==
    [chosen |-> Get(record, "chosen", ""),
     rejected |-> Get(record, "rejected", ""),
     recipe_id |-> GetOrNone(record, "recipe_id"),
     recipe_name |-> GetOrNone(record, "recipe_name"),
     category |-> GetOrNone(record, "category")]

RECURSIVE ExtractFlattenedData(_)
ExtractFlattenedData(json_data) ==
    IF json_data = <<>> THEN <<>>
    ELSE <<FlattenRecord(Head(json_data))>> \o ExtractFlattenedData(Tail(json_data))

\* The Arrow type pa.Table.from_pandas gives a column of the three optional
\* fields: null when every value is None, double for integers mixed with
\* None (pandas turns None into NaN), else the type of the values.
ColumnType(rows, field, value_type) ==
    IF \A k \in 1..Len(rows) : rows[k][field] = <<>> THEN "null"
    ELSE IF value_type = "int64" /\ \E k \in 1..Len(rows) : rows[k][field] = <<>>
         THEN "double"
         ELSE value_type

TableSchema(rows) ==
    [chosen |-> "string", rejected |-> "string",
     recipe_id |-> ColumnType(rows, "recipe_id", "int64"),
     recipe_name |-> ColumnType(rows, "recipe_name", "string"),
     category |-> ColumnType(rows, "category", "string")]

NoOutput == [exists |-> FALSE, complete |-> FALSE, rows |-> <<>>]

ParquetStart(json_data, chunk_size) ==
    [pc |-> "stream", json_data |-> json_data, chunk_size |-> chunk_size, i |-> 0,
     writer |-> <<>>, stream_file |-> NoOutput, pandas_done |-> FALSE,
     pandas_file |-> NoOutput, printed |-> FALSE]

\* convert_json_to_parquet_pandas, to its own output file.
PandasConvert ==
    /\ parquet.pc # "off"
    /\ ~parquet.pandas_done
    /\ parquet' = [parquet EXCEPT
                      !.pandas_done = TRUE,
                      !.pandas_file = [exists |-> TRUE, complete |-> TRUE,
                                       rows |-> ExtractFlattenedData(parquet.json_data)]]
    /\ UNCHANGED <<generator_vars, scraper>>

\* convert_json_to_parquet_streaming, lines 77-91: one chunk.  write_table
\* raises when the chunk's schema is not the schema of the first chunk; the
\* file then stays without its footer.
StreamChunk ==
    /\ parquet.pc = "stream"
    /\ parquet.i < Len(parquet.json_data)
    /\ LET i == parquet.i
           total_records == Len(parquet.json_data)
           last == IF i + parquet.chunk_size < total_records
                   THEN i + parquet.chunk_size ELSE total_records
           chunk == SubSeq(parquet.json_data, i + 1, last)
           flattened_chunk == ExtractFlattenedData(chunk)
           schema == TableSchema(flattened_chunk)
           writer == IF parquet.writer = <<>> THEN <<schema>> ELSE parquet.writer
       IN  IF schema # writer[1]
           THEN parquet' = [parquet EXCEPT !.pc = "raised"]
           ELSE parquet' = [parquet EXCEPT
                               !.writer = writer,
                               !.stream_file = [exists |-> TRUE, complete |-> FALSE,
                                                rows |-> parquet.stream_file.rows
                                                         \o flattened_chunk],
                               !.i = i + parquet.chunk_size]
    /\ UNCHANGED <<generator_vars, scraper>>

\* Lines 93-96: after the loop.
StreamClose ==
    /\ parquet.pc = "stream"
    /\ parquet.i >= Len(parquet.json_data)
    /\ parquet' = [parquet EXCEPT
                      !.stream_file = IF parquet.writer # <<>>
                                      THEN [parquet.stream_file EXCEPT !.complete = TRUE]
                                      ELSE parquet.stream_file,
                      !.printed = TRUE,
                      !.pc = "done"]
    /\ UNCHANGED <<generator_vars, scraper>>

\* The input array: up to MaxRows records, each a finalized pair of the
\* generator, a record that already carries the three fields at top level,
\* or a record with neither texts nor metadata.
FinalizedPair(recipe, cho) ==
    CleanPair(LogLine(GenerateDpoPair(recipe, "¿Cómo preparo este plato para una cena familiar?", "basic_recipe", "contextual", cho, MidText), 1))

FlatInput ==
    [chosen |-> LongText, rejected |-> FallbackText, recipe_id |-> 8,
     recipe_name |-> "Encebollado", category |-> "ingredients"]

BareInput == [messages |-> <<>>]

JsonRecords ==
    {FinalizedPair(RecipeLocro, LongText), FinalizedPair(RecipeEncebollado, ApologyText),
     FlatInput, BareInput}

JsonArrays == UNION {[1..n -> JsonRecords] : n \in 0..MaxRows}

InitParquet ==
    /\ InitGeneratorIdle
    /\ scraper = ScraperIdle
    /\ \E json_data \in JsonArrays, chunk_size \in 1..MaxRows :
           parquet = ParquetStart(json_data, chunk_size)

NextParquet ==
    \/ PandasConvert
    \/ StreamChunk
    \/ StreamClose

SpecParquet == InitParquet /\ [][NextParquet]_vars

-----------------------------------------------------------------------------
(* Properties *)

\* C1: every record in a session log has non-empty chosen and rejected text,
\* chosen different from rejected, at least 50 characters of chosen and 20 of
\* rejected, exactly two messages with roles system then user, and the
\* metadata fields recipe_id, recipe_name, category and context; no other
\* pair is ever written.
C1_LoggedPairsAreValid ==
    \A s \in 1..MaxSessions : \A i \in 1..Len(session_logs[s]) :
        LET line == session_logs[s][i]
        IN  /\ line.chosen # ""
            /\ line.rejected # ""
            /\ line.chosen # line.rejected
            /\ Len(line.chosen) >= 50
            /\ Len(line.rejected) >= 20
            /\ Len(line.messages) = 2
            /\ line.messages[1].role = "system"
            /\ line.messages[2].role = "user"
            /\ {"recipe_id", "recipe_name", "category", "context"}
                   \subseteq DOMAIN line.metadata

\* A run that has logged one pair and dropped another.
C1_Witness ==
    /\ current_session = 1
    /\ Len(session_logs[1]) >= 1
    /\ successful_pairs >= 1
    /\ failed_pairs >= 1
    /\ pc = "sleep"
    /\ last_save.called /\ ~last_save.valid

\* The record the operator confirmed at the resume prompt.
SavedRecipeIdx == resume_from[1].current_recipe_idx

SavedQuestionIdx == resume_from[1].current_question_idx

InQuestion == pc \in {"save", "chosen", "rejected", "append", "sleep"}

\* C2: in a run resumed from a saved record (recipeIdx = r, questionIdx = q)
\* no question of a recipe with index below r is attempted: no progress
\* save, no chat call and no log append happens for such a recipe.
C2_ResumeSkipsEarlierRecipes ==
    resumed =>
        /\ \A a \in attempted : a[1] >= SavedRecipeIdx
        /\ \A k \in 1..Len(chat_calls) : chat_calls[k][1] >= SavedRecipeIdx
        /\ InQuestion => recipe_idx >= SavedRecipeIdx
        /\ start_recipe_idx = SavedRecipeIdx

\* A resumed run at work on recipe r >= 1 after the interrupted run had
\* attempted a question of an earlier recipe.
C2_Witness ==
    /\ resumed
    /\ SavedRecipeIdx >= 1
    /\ \E a \in prev_attempted : a[1] < SavedRecipeIdx
    /\ attempted # {}
    /\ pc = "sleep"
    /\ last_save.ret

\* The last question the previous process entered.
IsLastAttempt(a, S) ==
    /\ a \in S
    /\ \A b \in S : b[1] < a[1] \/ (b[1] = a[1] /\ b[2] <= a[2])

\* C3: after an interruption with saved progress (r, q), a confirmed resumed
\* run attempts again at most one of the questions the interrupted run had
\* attempted, the in-flight question q of recipe r.
C3_ResumeRedoesAtMostOneQuestion ==
    (/\ resumed
     /\ prev_end = "killed"
     /\ IsLastAttempt(<<SavedRecipeIdx, SavedQuestionIdx>>, prev_attempted))
    => (attempted \cap prev_attempted) \subseteq {<<SavedRecipeIdx, SavedQuestionIdx>>}

\* C4: when the chosen chat call fails, chosen is the apology text and the
\* pair is dropped, never appended to the session log.  (The apology text
\* has 65 characters.)
C4_FailedChosenIsDropped ==
    (pc = "sleep" /\ cho_failed) => (chosen = ApologyText /\ ~last_save.ret)

\* C5 as stated: when only the rejected chat call fails and chosen has at
\* least 50 characters, rejected is the fallback text, which has at least 20
\* characters, and the pair passes validation and is appended to the log.
C5_FailedRejectedIsAlwaysAppended ==
    (pc = "sleep" /\ ~cho_failed /\ rej_failed /\ Len(chosen) >= 50) =>
        /\ rejected = FallbackText
        /\ Len(rejected) >= 20
        /\ last_save.valid
        /\ last_save.ret

\* C5, amended: in that case rejected is the fallback text, which has at
\* least 20 characters; the pair passes validation unless chosen is that
\* same text, and a pair that passes is appended to the session log unless
\* the write to the session file fails.
C5_FailedRejectedIsAccepted ==
    (pc = "sleep" /\ ~cho_failed /\ rej_failed /\ Len(chosen) >= 50) =>
        /\ rejected = FallbackText
        /\ Len(rejected) >= 20
        /\ last_save.valid <=> (chosen # FallbackText)
        /\ ValidateDpoPairObject(CurrentPair) <=> (chosen # FallbackText)
        /\ last_save.ret <=> (chosen # FallbackText /\ last_save.write_ok)
        /\ last_save.ret =>
              /\ session_logs[current_session] # <<>>
              /\ LET line == session_logs[current_session][Len(session_logs[current_session])]
                 IN  line.chosen = chosen /\ line.rejected = FallbackText

\* The second pair of a run accepted with the fallback as its rejected text.
C5_Witness ==
    /\ pc = "sleep"
    /\ ~cho_failed
    /\ rej_failed
    /\ chosen = LongText
    /\ last_save.ret
    /\ Len(session_logs[current_session]) = 2

\* C6: a batch run over any recipe list is never aborted by a recipe or a
\* question; it reaches Completed.
C6_RunNeverAborts == pc # "aborted"

\* C7: validate returns false whenever chosen has fewer than 50 characters,
\* or rejected fewer than 20, or chosen equals rejected, or there are not
\* exactly two messages, or one of recipe_id, recipe_name, category, context
\* is missing from the metadata.
C7_ValidateRejectsBadPairs ==
    (/\ v_verdict # "unchecked"
     /\ \/ Len(v_pair.chosen) < 50
        \/ Len(v_pair.rejected) < 20
        \/ v_pair.chosen = v_pair.rejected
        \/ Len(v_pair.messages) # 2
        \/ \E f \in {"recipe_id", "recipe_name", "category", "context"} :
               f \notin DOMAIN v_pair.metadata)
    => v_verdict = "invalid"

\* A pair refused only because one metadata field is missing.
C7_Witness ==
    /\ v_verdict = "invalid"
    /\ Len(v_pair.chosen) >= 50
    /\ Len(v_pair.rejected) >= 20
    /\ v_pair.chosen # v_pair.rejected
    /\ v_pair.messages = <<SystemMsg, UserMsg>>
    /\ DOMAIN v_pair.metadata = {"recipe_id", "recipe_name", "category"}

\* C8: finalize on a session log of N valid lines writes an array of exactly
\* N objects in log order, each with exactly the keys messages, chosen,
\* rejected and metadata and the logged values (the output file being
\* writable).
C8_FinalizeStripsSessionFields ==
    (/\ pc = "finalized"
     /\ session_logs[current_session] # <<>>
     /\ final_write_ok)
    => LET log == session_logs[current_session]
           out == final_datasets[current_session]
       IN  /\ final_dataset = <<FinalPath(current_session)>>
           /\ Len(out) = 1
           /\ Len(out[1]) = Len(log)
           /\ \A i \in 1..Len(log) :
                 /\ DOMAIN out[1][i] = {"messages", "chosen", "rejected", "metadata"}
                 /\ out[1][i].messages = log[i].messages
                 /\ out[1][i].chosen = log[i].chosen
                 /\ out[1][i].rejected = log[i].rejected
                 /\ out[1][i].metadata = log[i].metadata

\* A finalized run whose log holds three lines.
C8_Witness ==
    /\ pc = "finalized"
    /\ final_write_ok
    /\ Len(session_logs[current_session]) = 3
    /\ final_datasets[current_session] # NoFile

\* C9: the progress record is written with (recipe i, question j) before any
\* chat call for that question: while the generation for (i, j) is in flight
\* or done, and until the next question's save, a progress write that did
\* not fail left current_recipe_idx = i and current_question_idx = j.
C9_ProgressSavedBeforeGeneration ==
    /\ \A k \in 1..Len(chat_calls) :
           <<chat_calls[k][1], chat_calls[k][2]>> \in attempted
    /\ (pc \in {"chosen", "rejected", "append", "sleep"} /\ save_ok) =>
           /\ progress_file # NoFile
           /\ progress_file[1].current_recipe_idx = recipe_idx
           /\ progress_file[1].current_question_idx = question_idx
           /\ progress_file[1].session_id = current_session
    /\ (pc = "save" /\ question_idx > 0 /\ save_ok) =>
           /\ progress_file # NoFile
           /\ progress_file[1].current_recipe_idx = recipe_idx
           /\ progress_file[1].current_question_idx = question_idx - 1
    /\ pc \in {"rejected", "append", "sleep"} =>
           <<recipe_idx, question_idx>> \in attempted

\* The rejected call of the second question of the second recipe in flight.
C9_Witness ==
    /\ pc = "rejected"
    /\ save_ok
    /\ recipe_idx = 1
    /\ question_idx = 1

\* C10: save_dpo_pair_incremental never raises; it returns true exactly when
\* it appended one line to the session log, and returns false with the log
\* unchanged when validation or the file write fails.
C10_AppendNeverRaises ==
    [][(pc = "append" /\ last_save'.called) =>
          LET before == session_logs[current_session]
              after == session_logs'[current_session]
          IN  /\ ~last_save'.raised
              /\ pc' = "sleep"
              /\ last_save'.ret <=>
                    (Len(after) = Len(before) + 1 /\ SubSeq(after, 1, Len(before)) = before)
              /\ ~last_save'.ret => after = before
              /\ (~last_save'.valid \/ ~last_save'.write_ok) => ~last_save'.ret
              /\ (last_save'.valid /\ last_save'.write_ok) => last_save'.ret
              /\ \A s \in 1..MaxSessions :
                    s # current_session => session_logs'[s] = session_logs[s]]_vars

\* A valid pair whose write failed: false was returned, the log kept its line.
C10_Witness ==
    /\ pc = "sleep"
    /\ last_save.called
    /\ last_save.valid
    /\ ~last_save.write_ok
    /\ ~last_save.ret
    /\ Len(session_logs[current_session]) = 1

\* The position of the question loop after question (r, q) of a recipe with
\* n questions: the next question of the recipe, or the next recipe.
NextPosition(r, q, n) ==
    IF q + 1 < n THEN <<"save", r, q + 1>> ELSE <<"recipe", r + 1, 0>>

\* C11: a failure of the chat service in generate_chosen_response or
\* generate_rejected_response is never propagated: the call returns its fixed
\* placeholder text, generate_dpo_pair still returns a pair, which is handed
\* to save_dpo_pair_incremental, and the batch goes on to the next question.
C11_ChatFailureNeverPropagates ==
    [][/\ (pc = "chosen" /\ cho_failed') =>
              /\ chosen' = ApologyText
              /\ pc' = "rejected"
              /\ failed_pairs' = failed_pairs
       /\ (pc = "rejected" /\ rej_failed') =>
              /\ rejected' = FallbackText
              /\ chosen' = chosen
              /\ pc' = "append"
              /\ failed_pairs' = failed_pairs
       /\ (pc = "append" /\ (cho_failed \/ rej_failed) /\ pc' # "killed") =>
              /\ last_save'.called
              /\ ~last_save'.raised
              /\ pc' = "sleep"
              /\ CurrentPair.chosen = chosen /\ CurrentPair.rejected = rejected
       /\ (pc = "sleep" /\ (cho_failed \/ rej_failed) /\ pc' # "killed") =>
              <<pc', recipe_idx', question_idx'>> =
                  NextPosition(recipe_idx, question_idx, Len(CurrentQuestions))
      ]_vars

\* Both chat calls of the first question of Locro de papa failed and the
\* loop stands at the save of its second question.
C11_Witness ==
    /\ pc = "save"
    /\ recipe_idx = 0
    /\ question_idx = 1
    /\ chat_calls = <<<<0, 0, "chosen">>, <<0, 0, "rejected">>>>
    /\ session_logs[current_session] # <<>>
    /\ session_logs[current_session][1].chosen = ApologyText
    /\ session_logs[current_session][1].rejected = FallbackText

\* C12: the session log is append-only during a run: every step of the batch
\* loop and of finalize either leaves each session log unchanged or extends
\* the running session's log by exactly one line at its end; a line once
\* written is never modified, reordered or removed.
C12_SessionLogIsAppendOnly ==
    [][\A s \in 1..MaxSessions :
          \/ session_logs'[s] = session_logs[s]
          \/ /\ s = current_session
             /\ pc = "append"
             /\ Len(session_logs'[s]) = Len(session_logs[s]) + 1
             /\ SubSeq(session_logs'[s], 1, Len(session_logs[s])) = session_logs[s]
      ]_vars

\* A finalized run whose log received two lines while one pair was dropped.
C12_Witness ==
    /\ pc = "finalized"
    /\ Len(session_logs[current_session]) = 2
    /\ Cardinality(attempted) = 3
    /\ final_dataset = <<FinalPath(current_session)>>

\* The question bank file holds no entry for the recipe.
ZeroBankEntries(recipe) ==
    \/ "id" \notin DOMAIN recipe
    \/ ~\E k \in 1..Len(questions_file.data) :
           /\ "recipe_id" \in DOMAIN questions_file.data[k]
           /\ questions_file.data[k].recipe_id = recipe.id

\* C13: for every recipe that has zero entries in the question bank,
\* get_recipe_questions returns the empty sequence, and during a batch run
\* that recipe causes no chat call, no progress save and no line in the
\* session log.
C13_RecipeWithoutQuestionsContributesNothing ==
    current_session >= 1 =>
        \A i \in 1..Len(recipes) :
            ZeroBankEntries(recipes[i]) =>
                /\ GetRecipeQuestions(questions_bank, recipes[i]) = <<>>
                /\ \A a \in attempted : a[1] # i - 1
                /\ \A k \in 1..Len(chat_calls) : chat_calls[k][1] # i - 1
                /\ progress_file # NoFile => progress_file[1].current_recipe_idx # i - 1
                /\ InQuestion => recipe_idx # i - 1
                /\ "id" \in DOMAIN recipes[i] =>
                       \A k \in 1..Len(session_logs[current_session]) :
                           session_logs[current_session][k].metadata.recipe_id # recipes[i].id

\* The loop went past a recipe without bank entries and logged a pair for
\* the recipe after it.
C13_Witness ==
    /\ pc = "sleep"
    /\ Len(recipes) = 2
    /\ recipes[1] = RecipeNoQuestions
    /\ questions_bank # <<>>
    /\ recipe_idx = 1
    /\ last_save.ret
    /\ progress_file # NoFile

\* The question bank file is missing or is not parseable JSON.
BankUnreadable == ~questions_file.exists \/ ~questions_file.parseable

\* C14: when the question bank file is missing or is not parseable JSON, the
\* generator is still constructed, with an empty bank, and a run over any
\* recipes makes no chat call, appends no pair to the session log and yields
\* an empty result: no final dataset is written and no path is returned.
C14_UnreadableBankYieldsNothing ==
    (BankUnreadable /\ current_session >= 1) =>
        /\ questions_bank = <<>>
        /\ chat_calls = <<>>
        /\ attempted = {}
        /\ progress_file = NoFile
        /\ session_logs[current_session] = <<>>
        /\ final_datasets[current_session] = NoFile
        /\ final_dataset \in {<<>>, <<"">>}
        /\ pc = "finalized" => final_dataset = <<"">>

\* A run over two recipes with an unparseable bank file, finalized.
C14_Witness ==
    /\ questions_file.exists
    /\ ~questions_file.parseable
    /\ recipes = <<RecipeEncebollado, RecipeLocro>>
    /\ pc = "finalized"
    /\ final_dataset = <<"">>

\* The kinds of the chat calls made for question q of recipe r, in call order.
RECURSIVE CallKinds(_, _, _)
CallKinds(calls, r, q) ==
    IF calls = <<>> THEN <<>>
    ELSE IF Head(calls)[1] = r /\ Head(calls)[2] = q
         THEN <<Head(calls)[3]>> \o CallKinds(Tail(calls), r, q)
         ELSE CallKinds(Tail(calls), r, q)

\* C15: for every question attempted in a batch run whose recipe record is
\* complete, the chat service is called exactly twice, first for the chosen
\* answer and then for the rejected answer, and both calls are finished
\* before the pair is validated or appended to the log.
C15_TwoChatCallsPerQuestion ==
    pc # "killed" =>
        /\ \A a \in attempted :
               ~PromptRaises(recipes[a[1] + 1]) =>
                   CallKinds(chat_calls, a[1], a[2]) =
                       IF a = <<recipe_idx, question_idx>> /\ pc = "chosen" THEN <<>>
                       ELSE IF a = <<recipe_idx, question_idx>> /\ pc = "rejected"
                            THEN <<"chosen">>
                       ELSE <<"chosen", "rejected">>
        /\ (pc = "append" \/ last_save.called) =>
               /\ Len(chat_calls) >= 2
               /\ chat_calls[Len(chat_calls) - 1] = <<recipe_idx, question_idx, "chosen">>
               /\ chat_calls[Len(chat_calls)] = <<recipe_idx, question_idx, "rejected">>
        /\ Len(chat_calls) <= 2 * Cardinality(attempted)

\* Three questions done, six chat calls made.
C15_Witness ==
    /\ pc = "completed"
    /\ Cardinality(attempted) = 3
    /\ Len(chat_calls) = 6
    /\ successful_pairs + failed_pairs = 3

\* The label of the one bank question of SpecCategory: <<>> when absent.
BankLabel ==
    IF "questions_category" \in DOMAIN questions_file.data[1]
    THEN <<questions_file.data[1].questions_category>> ELSE <<>>

FixedLabels ==
    {"General", "Ingredientes y preparación", "Técnicas", "Tiempo y planificación",
     "Información nutricional", "Porciones", "Solución de problemas",
     "Contexto cultural", "Opción múltiple"}

IsBasicRecipePair(pair) ==
    /\ pair.metadata.category = "basic_recipe"
    /\ pair.messages[1].role = "system"
    /\ pair.messages[1].content = system_messages["recipe_instructions"]
    /\ pair.metadata.difficulty_level = "beginner"

\* C16: for every bank question whose category label is "General", is absent
\* or is not in the fixed label set, the mapped category is basic_recipe, the
\* system message of the produced pair is the recipe_instructions persona
\* prompt, and the pair's metadata.difficulty_level is "beginner".
C16_GeneralMapsToBasicRecipe ==
    (/\ current_session >= 1
     /\ (BankLabel = <<>> \/ BankLabel = <<"General">> \/ BankLabel[1] \notin FixedLabels))
    => /\ \A i \in 1..Len(recipes) :
              LET questions == GetRecipeQuestions(questions_bank, recipes[i])
              IN  \A k \in 1..Len(questions) : questions[k][2] = "basic_recipe"
       /\ pc \in {"rejected", "append", "sleep"} => IsBasicRecipePair(CurrentPair)
       /\ \A k \in 1..Len(session_logs[current_session]) :
              IsBasicRecipePair(session_logs[current_session][k])
       /\ final_datasets[current_session] # NoFile =>
              \A k \in 1..Len(final_datasets[current_session][1]) :
                  IsBasicRecipePair(final_datasets[current_session][1][k])

\* The pair of a question labelled outside the fixed set reached the final
\* dataset of Locro de papa.
C16_Witness ==
    /\ pc = "finalized"
    /\ BankLabel = <<"Postres">>
    /\ recipes = <<RecipeLocro>>
    /\ final_datasets[current_session] # NoFile
    /\ Len(final_datasets[current_session][1]) = 1

\* The questions of this run whose processing has finished: the attempted
\* ones but the one between its progress save and its counter increment.
FinishedQuestions ==
    Cardinality(attempted) - (IF pc \in {"chosen", "rejected", "append"} THEN 1 ELSE 0)

CountersMatch ==
    /\ successful_pairs + failed_pairs = FinishedQuestions
    /\ successful_pairs = Len(session_logs[current_session])

\* C17: at every point of a batch run, successful_pairs + failed_pairs equals
\* the number of questions whose processing has finished in this run, and
\* successful_pairs equals the number of lines this run has appended to the
\* session log; each attempted question increments exactly one of the two
\* counters exactly once.
C17_CountersMatchLog ==
    [][(pc \in Running /\ pc' # "killed") =>
          /\ CountersMatch'
          /\ successful_pairs' >= successful_pairs
          /\ failed_pairs' >= failed_pairs
          /\ (successful_pairs' + failed_pairs') - (successful_pairs + failed_pairs) =
                 IF FinishedQuestions' > FinishedQuestions THEN 1 ELSE 0
          /\ successful_pairs' > successful_pairs =>
                 Len(session_logs'[current_session]) = Len(session_logs[current_session]) + 1
      ]_vars

\* A completed run of three questions: one pair logged, two dropped.
C17_Witness ==
    /\ pc = "completed"
    /\ successful_pairs = 1
    /\ failed_pairs = 2
    /\ Cardinality(attempted) = 3
    /\ Len(session_logs[current_session]) = 1

\* The recipe of a logged pair stands in the recipe list at 0-based index i.
PairOfRecipeAt(pair, i) ==
    /\ "id" \in DOMAIN recipes[i + 1]
    /\ "nombre" \in DOMAIN recipes[i + 1]
    /\ recipes[i + 1].id = pair.metadata.recipe_id
    /\ recipes[i + 1].nombre = pair.metadata.recipe_name

\* How the resumed run's files stand against the earlier sessions' files.
ResumedRunKeepsToItsSession ==
    LET own == session_logs[current_session]
        out == final_datasets[current_session]
    IN  /\ current_session >= 2
        /\ \A s \in 1..MaxSessions : \A k \in 1..Len(session_logs[s]) :
               session_logs[s][k].session_id = s
        /\ Len(own) = successful_pairs
        /\ \A k \in 1..Len(own) :
               \E i \in SavedRecipeIdx..(Len(recipes) - 1) : PairOfRecipeAt(own[k], i)
        /\ (pc = "finalized" /\ own # <<>>) =>
               /\ final_dataset = <<FinalPath(current_session)>>
               /\ out = <<CleanLines(own)>>
               /\ Len(out[1]) = Len(own)
               /\ \A s \in 1..(current_session - 1) : \A k \in 1..Len(session_logs[s]) :
                      (\A i \in SavedRecipeIdx..(Len(recipes) - 1) :
                           ~PairOfRecipeAt(session_logs[s][k], i))
                      => \A j \in 1..Len(out[1]) : out[1][j] # CleanPair(session_logs[s][k])
        /\ (pc = "finalized" /\ own = <<>>) =>
               /\ final_dataset = <<"">>
               /\ out = NoFile

\* C18: a resumed run gets a new session id and appends only to its own new
\* session log, never to the interrupted session's log; the final dataset
\* written after a resumed run contains exactly the pairs logged by the
\* resumed run and none of the pairs the interrupted session logged for
\* recipes before the resume offset.
C18_ResumedRunUsesOwnSession ==
    [][(resumed' /\ pc' # "killed") =>
          /\ ResumedRunKeepsToItsSession'
          /\ \A s \in 1..MaxSessions :
                 s # current_session' => session_logs'[s] = session_logs[s]
      ]_vars

\* A resumed run finalized with the pairs of Locro de papa only; the pair of
\* the recipe before the offset is in the interrupted session's log.
C18_Witness ==
    /\ pc = "finalized"
    /\ resumed
    /\ current_session = 2
    /\ SavedRecipeIdx = 1
    /\ recipes = <<RecipeEncebollado, RecipeLocro>>
    /\ Len(session_logs[1]) >= 1
    /\ session_logs[1][1].metadata.recipe_id = 8
    /\ final_datasets[2] # NoFile
    /\ Len(final_datasets[2][1]) = 2

\* The (recipe, question) the progress record names.
RecordedPosition == <<progress_file[1].current_recipe_idx,
                      progress_file[1].current_question_idx>>

\* The questions of the recipe at 0-based index r, as attempts.
QuestionsOfRecipe(r) ==
    {<<r, q>> : q \in 0..(Len(GetRecipeQuestions(questions_bank, recipes[r + 1])) - 1)}

\* C19: the progress record is never cleared or marked complete: after a run
\* reaches Completed the record still names the last (recipe, question) that
\* was attempted (its last save having written the file), and a later run
\* with resume confirmed starts at that recipe and attempts all of its
\* questions again.
C19_ProgressOutlivesCompletion ==
    [][/\ progress_file # NoFile =>
              /\ progress_file' # NoFile
              /\ pc # "save" => progress_file' = progress_file
       /\ (pc' \in {"completed", "finalized"} /\ attempted' # {}) =>
              /\ progress_file' # NoFile =>
                     progress_file'[1].completion_num < progress_file'[1].completion_den
              /\ save_ok' =>
                     /\ progress_file' # NoFile
                     /\ progress_file'[1].session_id = current_session'
                     /\ IsLastAttempt(RecordedPosition', attempted')
       /\ (resumed' /\ prev_end' = "finalized") =>
              /\ start_recipe_idx' = SavedRecipeIdx'
              /\ SavedRecipeIdx' < Len(recipes)
              /\ <<SavedRecipeIdx', SavedQuestionIdx'>> \in prev_attempted'
              /\ pc' \in {"completed", "finalized"} =>
                     QuestionsOfRecipe(SavedRecipeIdx') \subseteq attempted'
      ]_vars

\* A second run, resumed from the record a finalized run left behind, has
\* attempted both questions of Locro de papa again.
C19_Witness ==
    /\ resumed
    /\ prev_end = "finalized"
    /\ pc = "completed"
    /\ SavedRecipeIdx = 1
    /\ SavedQuestionIdx = 1
    /\ prev_attempted = {<<0, 0>>, <<1, 0>>, <<1, 1>>}
    /\ attempted = {<<1, 0>>, <<1, 1>>}

\* C20: every save_progress call made by the batch loop has total_recipes >= 1
\* and total_questions >= 1 (no division by zero), and the saved completion
\* ratio (recipe_idx * total_questions + question_idx) /
\* (total_recipes * total_questions) is >= 0, strictly below 1, and strictly
\* increasing over the successive saves of one run, also when recipes have
\* different numbers of questions.
C20_CompletionRatioIncreases ==
    [][(pc = "save" /\ pc' = "chosen") =>
          /\ Len(recipes) >= 1
          /\ Len(CurrentQuestions) >= 1
          /\ save_ok' =>
                 LET new == progress_file'[1]
                 IN  /\ new.total_recipes >= 1
                     /\ new.total_questions >= 1
                     /\ new.completion_den =
                            new.total_recipes * new.total_questions
                     /\ new.completion_num =
                            new.current_recipe_idx * new.total_questions
                            + new.current_question_idx
                     /\ new.completion_num >= 0
                     /\ new.completion_num < new.completion_den
                     /\ (progress_file # NoFile
                         /\ progress_file[1].session_id = current_session) =>
                            progress_file[1].completion_num * new.completion_den
                                < new.completion_num * progress_file[1].completion_den
      ]_vars

\* The save of the last question of Locro de papa (two questions) after the
\* one question of Encebollado: the ratio is 3/4.
C20_Witness ==
    /\ pc = "chosen"
    /\ save_ok
    /\ recipes = <<RecipeEncebollado, RecipeLocro>>
    /\ progress_file # NoFile
    /\ progress_file[1].completion_num = 3
    /\ progress_file[1].completion_den = 4

\* The entries of the bank file for a recipe identifier, in file order.
FileEntriesFor(id) ==
    LET Mine(item) == "recipe_id" \in DOMAIN item /\ item.recipe_id = id
    IN  SelectSeq(questions_file.data, Mine)

HasText(item) == "questions" \in DOMAIN item /\ item.questions # ""

ExpectedQuestion(item) ==
    <<item.questions,
      IF "questions_category" \in DOMAIN item /\ item.questions_category \in FixedLabels
      THEN category_mapping[item.questions_category] ELSE "basic_recipe",
      IF "question_type" \in DOMAIN item THEN item.question_type ELSE "contextual">>

\* C21: get_recipe_questions returns the recipe's bank entries in bank-file
\* order as (question text, mapped category, question type), omitting
\* exactly the entries whose question text is empty, mapping a missing or
\* unrecognised category label to basic_recipe and a missing question type
\* to "contextual"; the result length equals the number of bank entries for
\* that recipe id with non-empty text.
C21_QuestionsFollowBankOrder ==
    current_session >= 1 =>
        \A i \in 1..Len(recipes) :
            "id" \in DOMAIN recipes[i] =>
                LET entries == SelectSeq(FileEntriesFor(recipes[i].id), HasText)
                    result == GetRecipeQuestions(questions_bank, recipes[i])
                IN  /\ Len(result) = Len(entries)
                    /\ \A k \in 1..Len(result) : result[k] = ExpectedQuestion(entries[k])

\* C22: for every recipe identifier, including 0, that has at least one
\* question-bank entry with non-empty question text, get_recipe_questions
\* returns a non-empty sequence; it returns an empty sequence only when the
\* identifier is absent from the bank.
C22_KnownIdentifierHasQuestions ==
    current_session >= 1 =>
        \A i \in 1..Len(recipes) :
            "id" \in DOMAIN recipes[i] =>
                LET entries == FileEntriesFor(recipes[i].id)
                    result == GetRecipeQuestions(questions_bank, recipes[i])
                IN  /\ (\E k \in 1..Len(entries) : HasText(entries[k])) => result # <<>>
                    /\ result = <<>> => entries = <<>>

-----------------------------------------------------------------------------
(* Persona selection *)

PersonaPrompts == {system_messages[k] : k \in DOMAIN system_messages}

\* Every category get_recipe_questions can hand to the generator.
MappedCategories ==
    {category_mapping[l] : l \in DOMAIN category_mapping} \cup {"basic_recipe"}

\* Category strings the mapping never produces.
OtherCategories == {"", "Postres", "General", "base_expert", "recipe_instructions"}

UsesPersona(pair) ==
    /\ pair.messages[1].role = "system"
    /\ pair.messages[1].content = SelectSystemMessage(pair.metadata.category)
    /\ pair.messages[1].content \in PersonaPrompts
    /\ pair.messages[1].content # system_messages["base_expert"]

\* C23: persona selection is total: every category string selects one of the
\* fixed persona prompts; every category the bank-label mapping can produce
\* selects a persona other than base_expert (time_and_planning and
\* scaling_portions share recipe_instructions), so no pair of a batch run
\* carries the base_expert prompt.
C23_PersonaSelectionTotal ==
    /\ \A c \in MappedCategories \cup OtherCategories :
           SelectSystemMessage(c) \in PersonaPrompts
    /\ \A c \in MappedCategories :
           SelectSystemMessage(c) # system_messages["base_expert"]
    /\ SelectSystemMessage("time_and_planning") = system_messages["recipe_instructions"]
    /\ SelectSystemMessage("scaling_portions") = system_messages["recipe_instructions"]
    /\ current_session >= 1 =>
        /\ pc \in {"rejected", "append", "sleep"} => UsesPersona(CurrentPair)
        /\ \A k \in 1..Len(session_logs[current_session]) :
               UsesPersona(session_logs[current_session][k])
        /\ final_datasets[current_session] # NoFile =>
               \A k \in 1..Len(final_datasets[current_session][1]) :
                   UsesPersona(final_datasets[current_session][1][k])

\* A question labelled "Porciones" reached the final dataset with the
\* recipe_instructions prompt.
C23_Witness ==
    /\ pc = "finalized"
    /\ BankLabel = <<"Porciones">>
    /\ final_datasets[current_session] # NoFile
    /\ Len(final_datasets[current_session][1]) = 1
    /\ final_datasets[current_session][1][1].metadata.category = "scaling_portions"
    /\ final_datasets[current_session][1][1].messages[1].content
           = system_messages["recipe_instructions"]

-----------------------------------------------------------------------------
(* finalize on a damaged session file *)

Unusable(log) ==
    \/ log = <<>>
    \/ \E i \in 1..Len(log) : ~IsBlank(log[i]) /\ ~LineParses(log[i])

\* C24: finalize is all-or-nothing: when the session log does not exist or
\* any non-blank line is unparseable or lacks one of messages, chosen,
\* rejected, metadata, it returns the empty path, raises nothing and writes
\* no final dataset file; the session log is unchanged.
C24_FinalizeAllOrNothing ==
    [][(pc = "completed" /\ pc' # "completed"
        /\ Unusable(session_logs[current_session]))
       => /\ pc' = "finalized"
          /\ final_dataset' = <<"">>
          /\ final_datasets' = final_datasets
          /\ final_datasets'[current_session] = NoFile
          /\ session_logs' = session_logs]_vars

\* A session file whose first line is a logged pair and whose second line is
\* not JSON was finalized with a writable output directory: nothing written.
C24_Witness ==
    /\ pc = "finalized"
    /\ final_write_ok
    /\ session_logs[1] = <<GoodLine, GarbledLine>>
    /\ final_dataset = <<"">>
    /\ final_datasets[1] = NoFile

-----------------------------------------------------------------------------
(* The two validators *)

\* C25: the object validator (validate_dpo_pair_object) and the dictionary
\* validator (validate_dpo_pair) return the same verdict for every pair with
\* the same messages, chosen, rejected and metadata values, including empty
\* strings, empty message lists and empty metadata.
C25_ValidatorsAgree ==
    v_verdict # "unchecked" =>
        /\ v_dict_verdict # "unchecked"
        /\ v_verdict = v_dict_verdict
        /\ (v_dict_verdict = "valid") = ValidateDpoPair(v_pair)

\* Both validators rejected a well-formed pair whose chosen text is empty.
C25_Witness ==
    /\ v_verdict = "invalid"
    /\ v_dict_verdict = "invalid"
    /\ v_pair.chosen = ""
    /\ v_pair.rejected = MidText
    /\ v_pair.messages = <<SystemMsg, UserMsg>>
    /\ RequiredMetadata \subseteq DOMAIN v_pair.metadata

-----------------------------------------------------------------------------
(* The scraper *)

NoDuplicateUrls(recipe_list) ==
    \A a, b \in 1..Len(recipe_list) :
        recipe_list[a].url = recipe_list[b].url => a = b

\* C26: for any list of index links (possibly with the same link more than
\* once) and any existing output file, a link whose url is already in the
\* output file is not scraped again, and the output file after the run never
\* contains two recipe records with the same url.
C26_ResumeNeverDuplicates ==
    scraper.pc # "start" =>
        /\ \A k \in 1..Len(scraper.scraped) :
               scraper.scraped[k] \notin UrlsOf(LoadExistingRecipes(scraper.initial_file))
        /\ (scraper.pc = "done" /\ scraper.file.exists /\ scraper.file.parseable)
               => NoDuplicateUrls(scraper.file.data)

\* The part of C26 about links already in the output file, on its own.
ScrapedLinksAreNew ==
    scraper.pc # "start" =>
        \A k \in 1..Len(scraper.scraped) :
            scraper.scraped[k] \notin UrlsOf(LoadExistingRecipes(scraper.initial_file))

\* The sequential loop, lines 336-343, as a fold over the per-link outcomes.
RECURSIVE SequentialRecipes(_, _, _)
SequentialRecipes(acc, links, results) ==
    IF links = <<>> THEN acc
    ELSE SequentialRecipes(IF Head(results) = "ok"
                           THEN Append(acc, RecipeRecord(Head(links))) ELSE acc,
                           Tail(links), Tail(results))

\* C27: with --threads > 1, for every interleaving of the worker threads the
\* recipes appended to the result are the successful scrapes in the order of
\* links_to_scrape with the failed scrapes omitted, the same final list the
\* sequential mode produces for the same per-link outcomes; a failing scrape
\* in one worker never aborts the others.
C27_PoolKeepsLinkOrder ==
    /\ (scraper.pc \in {"final", "done"} /\ scraper.links_to_scrape # <<>>) =>
           /\ \A k \in 1..Len(scraper.results) : scraper.results[k] \in {"ok", "none"}
           /\ Len(scraper.finished) = Len(scraper.links_to_scrape)
           /\ scraper.recipes =
                  SequentialRecipes(scraper.loaded, scraper.links_to_scrape, scraper.results)
    /\ (scraper.pc = "pool" /\ \E k \in 1..Len(scraper.results) : scraper.results[k] = "none")
           => \/ ENABLED WorkerStart
              \/ \E k \in InFlight : ENABLED WorkerFinish(k, TRUE)
              \/ ENABLED CollectResults

\* Two workers, three links: the second link failed and finished first, the
\* first and third succeeded; the run is over.
C27_Witness ==
    /\ scraper.pc = "done"
    /\ scraper.threads = 2
    /\ scraper.results = <<"ok", "none", "ok">>
    /\ scraper.finished = <<2, 1, 3>>
    /\ scraper.loaded = <<>>
    /\ Len(scraper.recipes) = 2

\* Two workers, two different links, both scraped, the second finished first.
PoolFinishedOutOfOrder ==
    /\ scraper.pc = "done"
    /\ scraper.threads = 2
    /\ scraper.results = <<"ok", "ok">>
    /\ scraper.finished = <<2, 1>>
    /\ scraper.links_to_scrape[1] # scraper.links_to_scrape[2]

\* C28: in sequential mode the output file is saved every 10 recipes: after
\* the link at position i (1-based), i a multiple of 10, has been processed,
\* the output file holds every recipe scraped successfully so far, whether
\* or not that link's own scrape succeeded.
C28_SavedEveryTenLinks ==
    [][(scraper.pc = "seq" /\ scraper'.i = scraper.i + 1
        /\ scraper'.i % SaveEvery = 0)
       => /\ scraper'.file.exists
          /\ scraper'.file.parseable
          /\ scraper'.file.data = scraper'.recipes]_vars

\* The same, for a link at a multiple of 10 whose own scrape succeeded.
SavedAfterTenthSuccess ==
    [][(scraper.pc = "seq" /\ scraper'.i = scraper.i + 1
        /\ scraper'.i % SaveEvery = 0
        /\ scraper'.results[scraper'.i] = "ok")
       => /\ scraper'.file.exists
          /\ scraper'.file.data = scraper'.recipes]_vars

-----------------------------------------------------------------------------
(* JSON to Parquet *)

StreamEnded == parquet.pc \in {"done", "raised"}

\* C29: for every input array (the empty array included) and every
\* chunk_size >= 1, the streaming conversion writes an output file with the
\* same rows in the same order as the in-memory pandas conversion: the
\* flattened chunks concatenated are the whole array flattened, and an output
\* file is always produced.
C29_StreamingMatchesPandas ==
    (StreamEnded /\ parquet.pandas_done) =>
        /\ parquet.pc = "done"
        /\ parquet.stream_file.exists
        /\ parquet.stream_file.complete
        /\ parquet.pandas_file.exists
        /\ parquet.stream_file.rows = parquet.pandas_file.rows

\* What does hold: a streaming run that wrote every chunk wrote the rows of
\* the pandas conversion in the same order.
StreamedChunksConcatenate ==
    (parquet.pc = "done" /\ parquet.pandas_done /\ parquet.json_data # <<>>) =>
        /\ parquet.stream_file.exists
        /\ parquet.stream_file.complete
        /\ parquet.stream_file.rows = parquet.pandas_file.rows

IsFinalizedPair(record) ==
    /\ {"messages", "chosen", "rejected", "metadata"} \subseteq DOMAIN record
    /\ {"recipe_id", "recipe_name", "category"} \subseteq DOMAIN record.metadata

\* C30: extract_flattened_data yields exactly one flat record per input
\* record in input order, and for a finalized DPO pair whose metadata holds
\* recipe_id, recipe_name and category, the flat record's recipe_id,
\* recipe_name and category equal those metadata values and its chosen and
\* rejected equal the pair's.
C30_FlattenKeepsMetadata ==
    parquet.pandas_done =>
        LET json_data == parquet.json_data
            flat == parquet.pandas_file.rows
        IN  /\ Len(flat) = Len(json_data)
            /\ \A k \in 1..Len(json_data) :
                   IsFinalizedPair(json_data[k]) =>
                       /\ flat[k].chosen = json_data[k].chosen
                       /\ flat[k].rejected = json_data[k].rejected
                       /\ flat[k].recipe_id = <<json_data[k].metadata.recipe_id>>
                       /\ flat[k].recipe_name = <<json_data[k].metadata.recipe_name>>
                       /\ flat[k].category = <<json_data[k].metadata.category>>

\* What does hold: one flat record per input record, in order, with the
\* record's chosen and rejected texts.
FlattenKeepsOrderAndTexts ==
    parquet.pandas_done =>
        LET json_data == parquet.json_data
            flat == parquet.pandas_file.rows
        IN  /\ Len(flat) = Len(json_data)
            /\ \A k \in 1..Len(json_data) :
                   /\ flat[k].chosen = Get(json_data[k], "chosen", "")
                   /\ flat[k].rejected = Get(json_data[k], "rejected", "")

====
